---- MODULE Spec2Model ----
(***************************************************************************)
(* DNA Lifesong Studio, backend/dna_processor.py (DNAProcessor v3.2):      *)
(* the Codon Harmony algorithm that turns a DNA string into a four-track   *)
(* note schedule.                                                          *)
(*                                                                         *)
(* A string is a sequence of one-character strings.  Times and durations   *)
(* are integers counting 1/400 of a beat (Unit): every start time and      *)
(* every duration the code computes (quarter beats, *0.85, *0.8, *0.95,    *)
(* *0.9, the 1.2-beat outro step) is a whole number of such units, so      *)
(* the model carries the exact value of the code's float.                  *)
(***************************************************************************)
EXTENDS Integers, Sequences, FiniteSets, TLC

\* ------------------------------------------------------------------ bounds

\* Longest input built from whole triplets (in triplets).
MaxCodons == 4
\* Longest input enumerated character by character.
MaxShort == 2
\* Most codons of the long inputs of the model.
MaxLongCodons == 10
\* Requested durations are DurStep * k seconds, k in -1 .. MaxDurSteps.
MaxDurSteps == 2
\* Longest input of the analysis-only specification (in characters).
MaxLen == 6

\* Longest repeated block of the analysis-only specification (in characters).
MaxBlock == 12
\* Most copies of a repeated block.
MaxCopies == 3

\* Largest numerator and denominator of the ratios of the band-lookup
\* specification (counts of bases).
MaxRatioNum == 1000
MaxRatioDen == 3

\* Pitches of the snap specification run over -MaxPitch..MaxPitch.
MaxPitch == 127

\* Request threads of the server specification.
NThreads == 2
\* Requests the server receives in one behaviour.
MaxRequests == 3
\* Clock ticks per second: time.time() is finer than the seconds of strftime.
TicksPerSecond == 2
\* The server's clock runs up to MaxSeconds seconds.
MaxSeconds == 61
\* RATE_LIMIT = int(os.environ.get('RATE_LIMIT', 30)): the model runs the
\* server with the environment variable RATE_LIMIT set to 2.
RATE_LIMIT == 2

\* Seconds between two requested durations of the model.
DurStep == 10
\* Ticks per beat.
Unit == 4 * 100
\* n/d beats, in ticks.
Beats(n, d) == (n * Unit) \div d

\* ------------------------------------------------------------ small helpers

Max(a, b) == IF a >= b THEN a ELSE b
Min(a, b) == IF a <= b THEN a ELSE b
Abs(a) == IF a >= 0 THEN a ELSE -a

\* Python's int() of the quotient n / d (d > 0): truncation toward zero.
Trunc(n, d) == IF n >= 0 THEN n \div d ELSE -((-n) \div d)

\* Python's round() of the quotient n / d (n >= 0, d > 0): to the nearest
\* integer, a tie to the even one.
RoundHalfEven(n, d) ==
    LET fl == n \div d
        r2 == 2 * (n - fl * d)
    IN  IF r2 > d THEN fl + 1
        ELSE IF r2 < d THEN fl
        ELSE IF fl % 2 = 0 THEN fl ELSE fl + 1

RECURSIVE SumSeq(_)
SumSeq(s) == IF s = <<>> THEN 0 ELSE Head(s) + SumSeq(Tail(s))

RECURSIVE Flatten(_)
Flatten(ss) == IF ss = <<>> THEN <<>> ELSE Head(ss) \o Flatten(Tail(ss))

\* s[a..b] with Python's slice clipping (1-based, inclusive).
Slice(s, a, b) == SubSeq(s, a, Min(b, Len(s)))

\* The strings of length n over the alphabet S.
StringsOfLen(S, n) == [1..n -> S]

\* --------------------------------------------------------------- characters

Bases == {"A", "T", "G", "C"}

\* str.upper() on the characters the model feeds in.
UpperChar(c) ==
    CASE c = "a" -> "A"
      [] c = "t" -> "T"
      [] c = "g" -> "G"
      [] c = "c" -> "C"
      [] c = "n" -> "N"
      [] OTHER -> c

Upper(s) == [i \in 1..Len(s) |-> UpperChar(s[i])]

\* str.count(c)
Count(s, c) == Cardinality({i \in 1..Len(s) : s[i] = c})

\* ord() of a base.
Ord(c) ==
    CASE c = "A" -> 65
      [] c = "C" -> 67
      [] c = "G" -> 71
      [] c = "T" -> 84

\* sum(ord(c) for c in ''.join(codons))
RECURSIVE OrdSum(_)
OrdSum(cs) ==
    IF cs = <<>> THEN 0
    ELSE Ord(Head(cs)[1]) + Ord(Head(cs)[2]) + Ord(Head(cs)[3]) + OrdSum(Tail(cs))

\* ------------------------------------------------- layer 1: key & mode tables

\* ROOT_KEYS, in dict order; low and high in hundredths.
ROOT_KEYS ==
    << [low |-> 0,   high |-> 70,    note |-> 11, name |-> "B"],
       [low |-> 70,  high |-> 85,    note |-> 4,  name |-> "E"],
       [low |-> 85,  high |-> 100,   note |-> 9,  name |-> "A"],
       [low |-> 100, high |-> 115,   note |-> 2,  name |-> "D"],
       [low |-> 115, high |-> 130,   note |-> 7,  name |-> "G"],
       [low |-> 130, high |-> 150,   note |-> 0,  name |-> "C"],
       [low |-> 150, high |-> 99900, note |-> 5,  name |-> "F"] >>

\* MODES, in dict order; low and high in hundredths.
MODES ==
    << [low |-> 0,   high |-> 85,    scale |-> <<0, 1, 3, 5, 6, 8, 10>>, name |-> "locrian",    character |-> "unstable"],
       [low |-> 85,  high |-> 92,    scale |-> <<0, 1, 3, 5, 7, 8, 10>>, name |-> "phrygian",   character |-> "dark"],
       [low |-> 92,  high |-> 97,    scale |-> <<0, 2, 3, 5, 7, 8, 10>>, name |-> "aeolian",    character |-> "reflective"],
       [low |-> 97,  high |-> 103,   scale |-> <<0, 2, 3, 5, 7, 9, 10>>, name |-> "dorian",     character |-> "sophisticated"],
       [low |-> 103, high |-> 108,   scale |-> <<0, 2, 4, 5, 7, 9, 10>>, name |-> "mixolydian", character |-> "bluesy"],
       [low |-> 108, high |-> 115,   scale |-> <<0, 2, 4, 5, 7, 9, 11>>, name |-> "ionian",     character |-> "bright"],
       [low |-> 115, high |-> 99900, scale |-> <<0, 2, 4, 6, 7, 9, 11>>, name |-> "lydian",     character |-> "ethereal"] >>

\* low <= num/den < high, for a band given in hundredths.
InBand(band, num, den) == band.low * den <= 100 * num /\ 100 * num < band.high * den

\* The first band of the table holding num/den, 0 when none does.
RECURSIVE FirstBand(_, _, _, _)
FirstBand(table, num, den, k) ==
    IF k > Len(table) THEN 0
    ELSE IF InBand(table[k], num, den) THEN k
    ELSE FirstBand(table, num, den, k + 1)

\* ------------------------------------------------ layer 2: codon tables

\* Position of a base in the row order of the source's codon tables.
BaseIdx(b) ==
    CASE b = "T" -> 0
      [] b = "C" -> 1
      [] b = "A" -> 2
      [] b = "G" -> 3

CodonIdx(codon) == 16 * BaseIdx(codon[1]) + 4 * BaseIdx(codon[2]) + BaseIdx(codon[3]) + 1

\* The table with TGA read as tryptophan (the mitochondrial code).
CODON_TABLE_OpalAsTrp ==
    << "F", "F", "L", "L", "S", "S", "S", "S", "Y", "Y", "*", "*", "C", "C", "W", "W",
       "L", "L", "L", "L", "P", "P", "P", "P", "H", "H", "Q", "Q", "R", "R", "R", "R",
       "I", "I", "I", "M", "T", "T", "T", "T", "N", "N", "K", "K", "S", "S", "R", "R",
       "V", "V", "V", "V", "A", "A", "A", "A", "D", "D", "E", "E", "G", "G", "G", "G" >>

\* CODON_TABLE, rows TTT TTC TTA TTG, TCT ..., as in the source.
CODON_TABLE ==
    << "F", "F", "L", "L", "S", "S", "S", "S", "Y", "Y", "*", "*", "C", "C", "*", "W",
       "L", "L", "L", "L", "P", "P", "P", "P", "H", "H", "Q", "Q", "R", "R", "R", "R",
       "I", "I", "I", "M", "T", "T", "T", "T", "N", "N", "K", "K", "S", "S", "R", "R",
       "V", "V", "V", "V", "A", "A", "A", "A", "D", "D", "E", "E", "G", "G", "G", "G" >>

\* CODON_FREQUENCY, in tenths (17.6 is 176), same row order.
CODON_FREQUENCY ==
    << 176, 203, 77, 129, 152, 177, 122, 44, 122, 153, 10, 8, 106, 126, 16, 132,
       132, 196, 72, 396, 175, 198, 169, 69, 109, 151, 123, 342, 45, 104, 62, 114,
       160, 208, 75, 220, 131, 189, 151, 61, 170, 191, 244, 319, 121, 195, 122, 120,
       110, 145, 71, 281, 184, 277, 158, 74, 218, 251, 290, 396, 108, 222, 165, 165 >>

\* CODON_PITCH, same row order (-1 is a rest).
CODON_PITCH ==
    << 0, 1, 2, 3, 10, 11, 12, 13, 14, 16, -1, -1, 8, 10, -1, 22,
       4, 5, 6, 7, 5, 7, 9, 11, 10, 12, 15, 17, 18, 19, 20, 21,
       8, 9, 10, 12, 12, 13, 14, 15, 17, 19, 19, 21, 14, 15, 22, 23,
       3, 5, 7, 8, 7, 9, 11, 12, 14, 16, 17, 19, 0, 2, 4, 5 >>

\* AMINO_ACID_CHORDS[amino][1]: the chord's scale-degree offsets.
AMINO_ACID_CHORDS(aa) ==
    CASE aa \in {"L", "I", "V", "M", "A"} -> <<0, 2, 4>>
      [] aa \in {"F", "Y"} -> <<0, 2, 4, 6>>
      [] aa = "W" -> <<0, 2, 4, 6, 1>>
      [] aa \in {"S", "T", "N", "Q"} -> <<0, 2, 4>>
      [] aa \in {"K", "R", "H", "D", "E"} -> <<0, 2, 4, 5>>
      [] aa = "P" -> <<0, 3, 4>>
      [] aa = "G" -> <<0, 1, 4>>
      [] aa = "C" -> <<0, 2, 4>>
      [] aa = "*" -> <<>>
      [] OTHER -> <<0, 2, 4>>

\* AMINO_ACID_CHORDS[amino][0] = 'rest'
IsRestChord(aa) == aa = "*"

STOP_CODONS == {<<"T", "A", "A">>, <<"T", "A", "G">>, <<"T", "G", "A">>}
ATG == <<"A", "T", "G">>

\* ------------------------------------------------ layer 4: base tables

FIRST_BASE_DEGREE(b) ==
    CASE b = "A" -> 0
      [] b = "T" -> 3
      [] b = "G" -> 4
      [] b = "C" -> 6
      [] OTHER -> 0

SECOND_BASE_OCTAVE(b) ==
    CASE b = "A" -> -12
      [] b = "T" -> -5
      [] b = "G" -> 0
      [] b = "C" -> 12
      [] OTHER -> 0

\* RHYTHM_PATTERNS[b2 + b3], in hundredths of a beat.
RHYTHM_PATTERNS(b2, b3) ==
    CASE b2 = "A" /\ b3 = "A" -> <<200, 100>>
      [] b2 = "A" /\ b3 = "T" -> <<100, 100, 100>>
      [] b2 = "A" /\ b3 = "G" -> <<66, 66, 66>>
      [] b2 = "A" /\ b3 = "C" -> <<50, 50, 100>>
      [] b2 = "T" /\ b3 = "A" -> <<150, 50>>
      [] b2 = "T" /\ b3 = "T" -> <<100, 50, 50>>
      [] b2 = "T" /\ b3 = "G" -> <<75, 75, 50>>
      [] b2 = "T" /\ b3 = "C" -> <<50, 150>>
      [] b2 = "G" /\ b3 = "A" -> <<100, 66, 66, 66>>
      [] b2 = "G" /\ b3 = "T" -> <<50, 50, 50, 50>>
      [] b2 = "G" /\ b3 = "G" -> <<100, 100>>
      [] b2 = "G" /\ b3 = "C" -> <<50, 100, 50>>
      [] b2 = "C" /\ b3 = "A" -> <<200>>
      [] b2 = "C" /\ b3 = "T" -> <<33, 33, 33, 100>>
      [] b2 = "C" /\ b3 = "G" -> <<75, 25, 100>>
      [] b2 = "C" /\ b3 = "C" -> <<25, 25, 50, 100>>
      [] OTHER -> <<100>>

\* list(CONTOUR_PATTERNS.values()), in dict order: rising, falling, wave,
\* zigzag, arch, valley, stepwise, leaping.
CONTOUR_PATTERNS ==
    << <<0, 1, 2, 3, 4, 5, 4, 3>>,
       <<5, 4, 3, 2, 1, 0, 1, 2>>,
       <<0, 2, 4, 3, 1, 3, 5, 4>>,
       <<0, 4, 1, 5, 2, 6, 3, 5>>,
       <<0, 2, 4, 5, 4, 2, 0, 1>>,
       <<4, 2, 0, 1, 0, 2, 4, 3>>,
       <<0, 1, 0, 2, 1, 3, 2, 4>>,
       <<0, 4, 2, 6, 1, 5, 3, 6>> >>

\* Index of 'wave' in CONTOUR_PATTERNS.
WaveContour == 3

PHRASE_LENGTHS == <<4, 6, 8, 3, 5, 7>>

\* list(OCTAVE_PATTERNS.values()), in dict order: stable, lift, drop, bounce,
\* climb, descend.
OCTAVE_PATTERNS ==
    << <<0, 0, 0, 0, 0, 0, 0, 0>>,
       <<0, 0, 0, 0, 12, 12, 12, 0>>,
       <<0, 0, 12, 12, 0, 0, -12, 0>>,
       <<0, 12, 0, 12, 0, -12, 0, 12>>,
       <<0, 0, 0, 12, 12, 12, 12, 12>>,
       <<12, 12, 12, 0, 0, 0, -12, -12>> >>

\* ---------------------------------------------------------------- analysis

\* The input of analyze / generate_midi: None, or a string.
None == [none |-> TRUE, chars |-> <<>>]
Str(chars) == [none |-> FALSE, chars |-> chars]

IsValidCodon(codon) == Len(codon) = 3 /\ \A i \in 1..3 : codon[i] \in Bases

\* The loop stopped at len - 3: a triplet that ends the sequence is left out.
RECURSIVE get_codons_from_short(_, _)
get_codons_from_short(sequence, i) ==
    IF i >= Len(sequence) - 3 THEN <<>>
    ELSE LET codon == Slice(sequence, i + 1, i + 3)
         IN  (IF IsValidCodon(codon) THEN <<codon>> ELSE <<>>)
             \o get_codons_from_short(sequence, i + 3)

\* _get_codons: for i in range(0, len - 2, 3), the valid sequence[i:i+3].
RECURSIVE get_codons_from(_, _)
get_codons_from(sequence, i) ==
    IF i >= Len(sequence) - 2 THEN <<>>
    ELSE LET codon == Slice(sequence, i + 1, i + 3)
         IN  (IF IsValidCodon(codon) THEN <<codon>> ELSE <<>>)
             \o get_codons_from(sequence, i + 3)

get_codons(sequence) == get_codons_from(sequence, 0)

\* _get_root_key on the ratio num/den: [note, name].
get_root_key(num, den) ==
    LET k == FirstBand(ROOT_KEYS, num, den, 1)
    IN  IF k = 0 THEN [note |-> 0, name |-> "C"]
        ELSE [note |-> ROOT_KEYS[k].note, name |-> ROOT_KEYS[k].name]

\* _get_mode on the ratio num/den: [scale, name, character].
get_mode(num, den) ==
    LET k == FirstBand(MODES, num, den, 1)
    IN  IF k = 0
        THEN [scale |-> <<0, 2, 3, 5, 7, 8, 10>>, name |-> "aeolian", character |-> "reflective"]
        ELSE [scale |-> MODES[k].scale, name |-> MODES[k].name, character |-> MODES[k].character]

\* The tempo on a base of 65 BPM with a span of 30.
TempoNarrow(gc_count, length) == (65 * length + 30 * gc_count) \div length

\* tempo = int(60 + (gc_content / 100) * 40), gc_content = gc_count / length * 100.
Tempo(gc_count, length) == (60 * length + 40 * gc_count) \div length

\* _detect_motifs -------------------------------------------------------

Window(sequence, i, length) == SubSeq(sequence, i, i + length - 1)

WindowOk(sequence, i, length) == \A k \in i..(i + length - 1) : sequence[k] \in Bases

\* pattern_counts[pattern] for the window starting at i.
WindowCount(sequence, i, length) ==
    Cardinality({j \in 1..(Len(sequence) - length + 1) :
                    Window(sequence, j, length) = Window(sequence, i, length)})

\* The repeated patterns of one length, kept only from the third occurrence on.
RECURSIVE MotifsOfLengthThrice(_, _, _)
MotifsOfLengthThrice(sequence, length, i) ==
    IF i > Len(sequence) - length + 1 THEN <<>>
    ELSE LET first == \A j \in 1..(i - 1) :
                          Window(sequence, j, length) # Window(sequence, i, length)
             count == WindowCount(sequence, i, length)
         IN  (IF WindowOk(sequence, i, length) /\ first /\ count > 2
              THEN << [pattern |-> Window(sequence, i, length),
                       count |-> count, length |-> length] >>
              ELSE <<>>)
             \o MotifsOfLengthThrice(sequence, length, i + 1)

\* The repeated patterns of one length, in the Counter's (first occurrence) order.
RECURSIVE MotifsOfLength(_, _, _)
MotifsOfLength(sequence, length, i) ==
    IF i > Len(sequence) - length + 1 THEN <<>>
    ELSE LET first == \A j \in 1..(i - 1) :
                          Window(sequence, j, length) # Window(sequence, i, length)
             count == WindowCount(sequence, i, length)
         IN  (IF WindowOk(sequence, i, length) /\ first /\ count >= 2
              THEN << [pattern |-> Window(sequence, i, length),
                       count |-> count, length |-> length] >>
              ELSE <<>>)
             \o MotifsOfLength(sequence, length, i + 1)

\* for length in range(6, 19, 3)
RECURSIVE MotifsFrom(_, _)
MotifsFrom(sequence, length) ==
    IF length > 18 THEN <<>>
    ELSE MotifsOfLength(sequence, length, 1) \o MotifsFrom(sequence, length + 3)

\* a sorts before b under key (-count, -length).
MotifBefore(a, b) == a.count > b.count \/ (a.count = b.count /\ a.length > b.length)

\* list.sort (stable) by MotifBefore.
SortMotifs(ms) ==
    LET rank(k) == Cardinality({j \in 1..Len(ms) :
                        MotifBefore(ms[j], ms[k])
                        \/ (j < k /\ ~MotifBefore(ms[k], ms[j]))})
    IN  [r \in 1..Len(ms) |-> ms[CHOOSE k \in 1..Len(ms) : rank(k) = r - 1]]

detect_motifs(sequence) ==
    LET sorted == SortMotifs(MotifsFrom(sequence, 6))
    IN  SubSeq(sorted, 1, Min(5, Len(sorted)))

\* _default_analysis.  gc, at_gc_ratio and pu_py_ratio are the exact
\* quotients num/den (the code rounds the two ratios to 3 places).
default_analysis ==
    [key |-> "C", root_note |-> 0, mode |-> "aeolian",
     scale |-> <<0, 2, 3, 5, 7, 8, 10>>, character |-> "reflective",
     tempo |-> 72,
     gc |-> [num |-> 50, den |-> 1],
     at_gc_ratio |-> [num |-> 1, den |-> 1],
     pu_py_ratio |-> [num |-> 1, den |-> 1],
     codons |-> <<>>, amino_acids |-> <<>>, codon_count |-> 0,
     motifs |-> <<>>, motif_count |-> 0, length |-> 0]

\* The guard with its limit one too low: a two-character string is analysed.
TooShortOffByOne(input) == input.none \/ Len(input.chars) < 2

\* The short-sequence guard: not sequence or len(sequence) < 3.
TooShort(input) == input.none \/ Len(input.chars) < 3

\* analyze past the guard.
full_analysis(chars) ==
    LET sequence == Upper(chars)
        length == Len(sequence)
        gc_count == Count(sequence, "G") + Count(sequence, "C")
        at_count == Count(sequence, "A") + Count(sequence, "T")
        at_gc == IF gc_count > 0 THEN [num |-> at_count, den |-> gc_count]
                 ELSE [num |-> 3, den |-> 2]
        key == get_root_key(at_gc.num, at_gc.den)
        purines == Count(sequence, "A") + Count(sequence, "G")
        pyrimidines == Count(sequence, "T") + Count(sequence, "C")
        pu_py == IF pyrimidines > 0 THEN [num |-> purines, den |-> pyrimidines]
                 ELSE [num |-> 1, den |-> 1]
        mode == get_mode(pu_py.num, pu_py.den)
        codons == get_codons(sequence)
        motifs == detect_motifs(sequence)
    IN  [key |-> key.name, root_note |-> key.note, mode |-> mode.name,
         scale |-> mode.scale, character |-> mode.character,
         tempo |-> Tempo(gc_count, length),
         gc |-> [num |-> 100 * gc_count, den |-> length],
         at_gc_ratio |-> at_gc,
         pu_py_ratio |-> pu_py,
         codons |-> codons,
         amino_acids |-> [k \in 1..Len(codons) |-> CODON_TABLE[CodonIdx(codons[k])]],
         codon_count |-> Len(codons),
         motifs |-> motifs, motif_count |-> Len(motifs), length |-> length]

analyze(input) == IF TooShort(input) THEN default_analysis ELSE full_analysis(input.chars)

\* ------------------------------------------------------------------- notes

\* One midi.addNote call; time and duration in ticks.
Note(pitch, time, duration, volume) ==
    [pitch |-> pitch, time |-> time, duration |-> duration, volume |-> volume]

\* max(lo, min(hi, pitch))
Clamp(lo, hi, pitch) == Max(lo, Min(hi, pitch))

\* scale[degree % len(scale)], degree counted from 0.
ScaleAt(scale, degree) == scale[(degree % Len(scale)) + 1]

\* _snap_to_scale -------------------------------------------------------

\* min(abs(pitch_class - interval), 12 - abs(pitch_class - interval))
SnapDistance(pitch_class, interval) ==
    Min(Abs(pitch_class - interval), 12 - Abs(pitch_class - interval))

\* The loop over the scale: [min_distance, nearest_interval] after entry k.
RECURSIVE NearestInterval(_, _, _, _)
NearestInterval(scale, pitch_class, k, best) ==
    IF k > Len(scale) THEN best
    ELSE LET distance == SnapDistance(pitch_class, scale[k])
         IN  NearestInterval(scale, pitch_class, k + 1,
                 IF distance < best.min_distance
                 THEN [min_distance |-> distance, nearest_interval |-> scale[k]]
                 ELSE best)

\* _snap_to_scale without the final adjustment by an octave.
snap_to_scale_same_octave(pitch, root, scale) ==
    LET pitch_class == (pitch - root) % 12
        nearest == NearestInterval(scale, pitch_class, 1,
                       [min_distance |-> 12, nearest_interval |-> 0])
        octave == (pitch - root) \div 12
    IN  root + octave * 12 + nearest.nearest_interval

snap_to_scale(pitch, root, scale) ==
    LET pitch_class == (pitch - root) % 12
        nearest == NearestInterval(scale, pitch_class, 1,
                       [min_distance |-> 12, nearest_interval |-> 0])
        octave == (pitch - root) \div 12
        snapped_pitch == root + octave * 12 + nearest.nearest_interval
    IN  IF snapped_pitch > pitch + 6 THEN snapped_pitch - 12
        ELSE IF snapped_pitch < pitch - 6 THEN snapped_pitch + 12
        ELSE snapped_pitch

\* The melody's clamp of a pitch to the playable range.
MelodyClamp(pitch) == Clamp(48, 84, pitch)

\* ------------------------------------------------------------ intro / outro

\* _generate_intro: the notes added to each track, in addNote order.
generate_intro(root, scale) ==
    LET intro_beats == 8 * Unit
        pad == [i \in 1..3 |->
                   Note(Clamp(48, 72, 54 + root + scale[2 * i - 1]),
                        (i - 1) * Beats(1, 2),
                        intro_beats - (i - 1) * Beats(1, 2),
                        30 + (i - 1) * 5)]
        atg_degrees == <<0, 2, 4>>
        first == [i \in 1..3 |->
                   Note(MelodyClamp(60 + root + ScaleAt(scale, atg_degrees[i])),
                        Unit + (i - 1) * Beats(3, 2),
                        Beats(3, 2),
                        50 + (i - 1) * 10)]
        second == [i \in 1..3 |->
                   Note(MelodyClamp(72 + root + ScaleAt(scale, atg_degrees[i])),
                        Unit + 3 * Beats(3, 2) + (i - 1) * Beats(1, 2),
                        Beats(1, 2),
                        70)]
        bass_pitch == Clamp(28, 48, 36 + root + scale[1])
        bass == << Note(bass_pitch, 0, 3 * Unit, 50),
                   Note(bass_pitch, 4 * Unit, 3 * Unit, 60) >>
        harmony == [i \in 1..3 |->
                   Note(Clamp(36, 72, 48 + root + ScaleAt(scale, atg_degrees[i])),
                        4 * Unit, 4 * Unit, 45)]
    IN  << first \o second, harmony, bass, pad >>

\* The outro's volumes per stop codon.
OutroVolumes(stop_codon) ==
    IF stop_codon = <<"T", "A", "G">> THEN <<70, 60, 50, 40>>
    ELSE IF stop_codon = <<"T", "G", "A">> THEN <<50, 45, 40, 35>>
    ELSE <<60, 50, 40, 30>>

\* 1.0 * tempo_feel, in ticks.
OutroStep(stop_codon) ==
    IF stop_codon = <<"T", "G", "A">> THEN Beats(12, 10) ELSE Unit

\* _generate_outro: the notes added to each track, in addNote order.
generate_outro(root, scale, start_time, stop_codon) ==
    LET outro_beats == 8 * Unit
        volumes == OutroVolumes(stop_codon)
        duration == OutroStep(stop_codon)
        descending_degrees == <<4, 2, 0, 4, 2, 0>>
        melody == [i \in 1..6 |->
                   Note(MelodyClamp((IF i - 1 >= 3 THEN 60 ELSE 72) + root
                                    + ScaleAt(scale, descending_degrees[i])),
                        start_time + (i - 1) * duration,
                        (duration * 9) \div 10,
                        volumes[Min(i - 1, Len(volumes) - 1) + 1])]
        final_chord == <<0, 2, 4>>
        pad == [i \in 1..3 |->
                   Note(Clamp(48, 72, 54 + root + ScaleAt(scale, final_chord[i])),
                        start_time, outro_beats, 35)]
        bass_pitch == Clamp(28, 48, 36 + root + scale[1])
        bass == << Note(bass_pitch, start_time, 4 * Unit, 55),
                   Note(bass_pitch, start_time + 4 * Unit, 4 * Unit, 40) >>
        v_degrees == <<4, 6, 1>>
        v_chord == [i \in 1..3 |->
                   Note(Clamp(36, 72, 48 + root + ScaleAt(scale, v_degrees[i])),
                        start_time, Beats(35, 10), 45)]
        i_degrees == <<0, 2, 4>>
        i_chord == [i \in 1..3 |->
                   Note(Clamp(36, 72, 48 + root + ScaleAt(scale, i_degrees[i])),
                        start_time + 4 * Unit, 4 * Unit, 40)]
    IN  << melody, v_chord \o i_chord, bass, pad >>

\* _find_structure_codons ------------------------------------------------

\* stop_positions: the (index, codon) pairs of the stop codons, in order.
RECURSIVE StopPositions(_, _)
StopPositions(codons, i) ==
    IF i > Len(codons) THEN <<>>
    ELSE (IF codons[i] # ATG /\ codons[i] \in STOP_CODONS
          THEN << [index |-> i - 1, codon |-> codons[i]] >> ELSE <<>>)
         \o StopPositions(codons, i + 1)

\* start_positions, as the set of 0-based indices of ATG.
StartPositions(codons) == {i - 1 : i \in {k \in 1..Len(codons) : codons[k] = ATG}}

\* The "no codon" value of last_stop / stop_codon (Python's None).
NoCodon == <<>>

find_structure_codons(codons) ==
    LET starts == StartPositions(codons)
        stops == StopPositions(codons, 1)
    IN  [has_start |-> starts # {},
         has_stop |-> stops # <<>>,
         first_start |-> IF starts # {} THEN CHOOSE i \in starts : \A j \in starts : i <= j
                         ELSE -1,
         last_stop |-> IF stops # <<>> THEN stops[Len(stops)].codon ELSE NoCodon,
         last_stop_idx |-> IF stops # <<>> THEN stops[Len(stops)].index ELSE -1]

\* ------------------------------------------------------------------ melody

\* base_duration * 800: 2.0 - (freq / 40.0) * 1.5, clamped to [0.5, 2.0].
BaseDuration800(codon) == Clamp(400, 1600, 1600 - 3 * CODON_FREQUENCY[CodonIdx(codon)])

\* The phrase-boundary factor, in tenths: 1.3 on the first note of a phrase,
\* 1.5 on the last, 1.0 otherwise.
PhraseFactor(phrase_position, phrase_length) ==
    IF phrase_position = 0 THEN 13
    ELSE IF phrase_position = phrase_length - 1 THEN 15
    ELSE 10

\* round(final_duration * 4): the note's length in quarter beats before the
\* 0.25 floor.
QuantizedQuarters(codon, codon_idx, phrase_position, phrase_length) ==
    LET rhythm_pattern == RHYTHM_PATTERNS(codon[2], codon[3])
        pattern_idx == codon_idx % Len(rhythm_pattern)
    IN  RoundHalfEven(BaseDuration800(codon) * rhythm_pattern[pattern_idx + 1]
                          * PhraseFactor(phrase_position, phrase_length),
                      200000)

\* final_duration in ticks: max(0.25, round(final_duration * 4) / 4).
FinalDuration(codon, codon_idx, phrase_position, phrase_length) ==
    Max(Beats(1, 4),
        QuantizedQuarters(codon, codon_idx, phrase_position, phrase_length) * Beats(1, 4))

\* The sounding length running past the slot into the next note.
NoteDurationLegato(final_duration) == (final_duration * 115) \div 100

\* The sounding length as a fixed gap of a quarter beat taken off the slot.
NoteDurationFixedGap(final_duration) == final_duration - Beats(1, 4)

\* note_duration = final_duration * 0.85
NoteDuration(final_duration) == (final_duration * 85) \div 100

\* dynamic_volume from phrase_progress = phrase_position / max(1, phrase_length - 1).
\* At phrase_progress 0.6 the float (0.6 - 0.5) * 20 is 1.9999999999999996, which
\* int() takes to 1; every other product the tables allow is exact enough.
DynamicVolume(phrase_position, phrase_length) ==
    LET den == Max(1, phrase_length - 1)
    IN  IF 2 * phrase_position < den
        THEN 70 + (phrase_position * 30) \div den
        ELSE IF 5 * phrase_position = 3 * den THEN 84
        ELSE 85 - ((2 * phrase_position - den) * 10) \div den

\* codon in motif (substring test)
CodonInMotif(codon, motif) == \E i \in 1..(Len(motif) - 2) : SubSeq(motif, i, i + 2) = codon

\* The volume after motif emphasis.
MelodyVolume(codon, phrase_position, phrase_length, motif_patterns) ==
    LET dynamic_volume == DynamicVolume(phrase_position, phrase_length)
    IN  IF \E k \in 1..Len(motif_patterns) : CodonInMotif(codon, motif_patterns[k])
        THEN Min(100, dynamic_volume + 15)
        ELSE dynamic_volume

\* The pitch of a melody note before the same-pitch check: base octave + root
\* + codon pitch + contour + octave shifts, clamped, snapped, clamped.
MelodyPitch(cx, codon, phrase_position, contour) ==
    LET codon_pitch_offset == CODON_PITCH[CodonIdx(codon)]
        contour_mod == contour[(phrase_position % Len(contour)) + 1] - 3
        octave_shift == cx.octave_pattern[(phrase_position % Len(cx.octave_pattern)) + 1]
        base_octave_mod == SECOND_BASE_OCTAVE(codon[2])
        pitch_offset == codon_pitch_offset + contour_mod
        pitch == MelodyClamp(cx.base_octave + cx.root + pitch_offset
                             + base_octave_mod + octave_shift)
    IN  MelodyClamp(snap_to_scale(pitch, cx.root, cx.scale))

\* The shift by a fifth of a note that repeats the last pitch before it ended.
FifthShift(cx, pitch) ==
    MelodyClamp(snap_to_scale(pitch + (IF pitch < 78 THEN 7 ELSE -7), cx.root, cx.scale))

\* Unset value of contour_hash (the name is not bound when len(codons) < 3).
Unbound == -1

\* What _generate_melody_offset computes before its loop.
\* contour_hash bound from the tenth codon on only.
HasContourHashFromTen(codons) == Len(codons) >= 10

\* if len(codons) >= 3: contour_hash is assigned only in this branch.
HasContourHash(codons) == Len(codons) >= 3

MelodyContext(codons, root, scale, total_beats, analysis, time_offset) ==
    LET mid_idx == Len(codons) \div 2
        melodic_seed == OrdSum(SubSeq(codons, 1, Min(10, Len(codons))))
    IN  [codons |-> codons, root |-> root, scale |-> scale,
         end_time |-> time_offset + total_beats,
         motif_patterns |-> [k \in 1..Len(analysis.motifs) |-> analysis.motifs[k].pattern],
         contour_hash |-> IF HasContourHash(codons)
                          THEN OrdSum(SubSeq(codons, 1, 3)) % Len(CONTOUR_PATTERNS)
                          ELSE Unbound,
         octave_pattern |-> IF Len(codons) >= 6
                            THEN OCTAVE_PATTERNS[(OrdSum(Slice(codons, mid_idx + 1, mid_idx + 3))
                                                   % Len(OCTAVE_PATTERNS)) + 1]
                            ELSE OCTAVE_PATTERNS[1],
         phrase_length |-> PHRASE_LENGTHS[(Len(codons) % Len(PHRASE_LENGTHS)) + 1],
         base_octave |-> 60 + ((melodic_seed % 3) - 1) * 12]

\* The loop variables of _generate_melody_offset on entry, with the notes
\* added so far and counters of the branches taken.
MelodyStart(cx, time_offset) ==
    [time_pos |-> time_offset, codon_idx |-> 0,
     contour |-> IF cx.contour_hash = Unbound THEN CONTOUR_PATTERNS[WaveContour]
                 ELSE CONTOUR_PATTERNS[cx.contour_hash + 1],
     phrase_position |-> 0, current_phrase |-> 0,
     last_pitch |-> -1, last_note_end |-> 0,
     notes |-> <<>>, rests |-> 0, fifth_shifts |-> 0, contour_shifts |-> 0,
     raised |-> FALSE]

\* The end of an iteration that added a note: the phrase-boundary reset.
PhraseBoundary(cx, st) ==
    IF st.phrase_position < cx.phrase_length THEN st
    ELSE LET reset == [st EXCEPT !.phrase_position = 0,
                                 !.current_phrase = st.current_phrase + 1]
         IN  IF st.codon_idx < Len(cx.codons) - 2
             THEN IF cx.contour_hash = Unbound
                  THEN [reset EXCEPT !.raised = TRUE]
                  ELSE LET next_codon == cx.codons[st.codon_idx + 1]
                           contour_shift == Ord(next_codon[1]) % 3
                       IN  [reset EXCEPT !.contour =
                               CONTOUR_PATTERNS[((cx.contour_hash + contour_shift)
                                                   % Len(CONTOUR_PATTERNS)) + 1],
                                         !.contour_shifts = st.contour_shifts + 1]
             ELSE reset

\* One pass through the body of the melody's while loop.
MelodyIteration(cx, st) ==
    LET codon == cx.codons[(st.codon_idx % Len(cx.codons)) + 1]
    IN  IF CODON_TABLE[CodonIdx(codon)] = "*"
        THEN [st EXCEPT !.time_pos = st.time_pos + 2 * Unit,
                        !.codon_idx = st.codon_idx + 1,
                        !.last_pitch = -1,
                        !.rests = st.rests + 1]
        ELSE IF CODON_PITCH[CodonIdx(codon)] = -1
        THEN [st EXCEPT !.time_pos = st.time_pos + Unit,
                        !.codon_idx = st.codon_idx + 1,
                        !.rests = st.rests + 1]
        ELSE
        LET final_duration == FinalDuration(codon, st.codon_idx, st.phrase_position,
                                            cx.phrase_length)
            snapped == MelodyPitch(cx, codon, st.phrase_position, st.contour)
            volume == MelodyVolume(codon, st.phrase_position, cx.phrase_length,
                                   cx.motif_patterns)
            note_duration == NoteDuration(final_duration)
            shift == snapped = st.last_pitch /\ st.time_pos < st.last_note_end
            pitch == IF shift THEN FifthShift(cx, snapped) ELSE snapped
        IN  PhraseBoundary(cx,
                [st EXCEPT !.notes = Append(st.notes,
                                         Note(pitch, st.time_pos, note_duration, volume)),
                           !.last_pitch = pitch,
                           !.last_note_end = st.time_pos + note_duration,
                           !.time_pos = st.time_pos + final_duration,
                           !.codon_idx = st.codon_idx + 1,
                           !.phrase_position = st.phrase_position + 1,
                           !.fifth_shifts = st.fifth_shifts + (IF shift THEN 1 ELSE 0)])

\* while time_pos < end_time and codon_idx < len(codons)
MelodyContinues(cx, st) ==
    ~st.raised /\ st.time_pos < cx.end_time /\ st.codon_idx < Len(cx.codons)

RECURSIVE MelodyLoop(_, _)
MelodyLoop(cx, st) ==
    IF MelodyContinues(cx, st) THEN MelodyLoop(cx, MelodyIteration(cx, st)) ELSE st

\* _generate_melody_offset: the loop's final state (no loop for no codons).
generate_melody_offset(codons, root, scale, total_beats, analysis, time_offset) ==
    LET cx == MelodyContext(codons, root, scale, total_beats, analysis, time_offset)
    IN  IF codons = <<>>
        THEN [notes |-> <<>>, rests |-> 0, fifth_shifts |-> 0, contour_shifts |-> 0,
              raised |-> FALSE, time_pos |-> time_offset, codon_idx |-> 0]
        ELSE LET st == MelodyLoop(cx, MelodyStart(cx, time_offset))
             IN  [notes |-> st.notes, rests |-> st.rests,
                  fifth_shifts |-> st.fifth_shifts,
                  contour_shifts |-> st.contour_shifts, raised |-> st.raised,
                  time_pos |-> st.time_pos, codon_idx |-> st.codon_idx]

\* ----------------------------------------------------------------- harmony

\* The notes of one chord of the harmony track.
HarmonyChord(codon, root, scale, time_pos) ==
    LET scale_degrees == AMINO_ACID_CHORDS(CODON_TABLE[CodonIdx(codon)])
        root_degree == FIRST_BASE_DEGREE(codon[1])
    IN  [k \in 1..Len(scale_degrees) |->
            LET actual_degree == (root_degree + scale_degrees[k]) % Len(scale)
                octave_adjust == ((root_degree + scale_degrees[k]) \div Len(scale)) * 12
            IN  Note(Clamp(36, 72, 48 + root + scale[actual_degree + 1] + octave_adjust),
                     time_pos, Beats(4 * 95, 100), 55)]

\* One pass through the body of the harmony's while loop.
HarmonyIteration(codons, root, scale, st) ==
    LET codon == codons[(st.codon_idx % Len(codons)) + 1]
        rest == IsRestChord(CODON_TABLE[CodonIdx(codon)])
    IN  [time_pos |-> st.time_pos + 4 * Unit,
         codon_idx |-> st.codon_idx + 1,
         notes |-> IF rest THEN st.notes
                   ELSE st.notes \o HarmonyChord(codon, root, scale, st.time_pos),
         rests |-> st.rests + (IF rest THEN 1 ELSE 0),
         slots |-> st.slots + 1,
         plan |-> Append(st.plan, [time |-> st.time_pos, codon |-> codon, rest |-> rest])]

RECURSIVE HarmonyLoop(_, _, _, _, _)
HarmonyLoop(codons, root, scale, end_time, st) ==
    IF st.time_pos < end_time
    THEN HarmonyLoop(codons, root, scale, end_time, HarmonyIteration(codons, root, scale, st))
    ELSE st

\* The loop variables of a chord-slot generator on entry; plan records, for
\* each pass of the loop, its time_pos, the codon it read and whether it
\* took the rest branch.
SlotStart(time_offset) ==
    [time_pos |-> time_offset, codon_idx |-> 0, notes |-> <<>>, rests |-> 0, slots |-> 0,
     plan |-> <<>>]

\* _generate_harmony_offset: the loop's final state.
generate_harmony_offset(codons, root, scale, total_beats, time_offset) ==
    IF codons = <<>> THEN SlotStart(time_offset)
    ELSE HarmonyLoop(codons, root, scale, time_offset + total_beats, SlotStart(time_offset))

\* -------------------------------------------------------------------- bass

\* bass_patterns, in hundredths of a beat.
BASS_PATTERNS ==
    << <<150, 50, 100, 100>>,
       <<100, 100, 100, 100>>,
       <<200, 100, 100>>,
       <<100, 50, 50, 100, 100>>,
       <<75, 75, 50, 100, 100>>,
       <<150, 150, 100>> >>

\* pattern_time before note i (counted from 1) of a pattern, in ticks.
PatternTime(bass_pattern, i) == Beats(SumSeq(SubSeq(bass_pattern, 1, i - 1)), 100)

\* The notes of one 4-beat bass cycle.
BassCycle(codon, root, scale, time_pos) ==
    LET root_degree == FIRST_BASE_DEGREE(codon[1])
        bass_pattern == BASS_PATTERNS[(Ord(codon[2]) % Len(BASS_PATTERNS)) + 1]
    IN  [i \in 1..Len(bass_pattern) |->
            LET degree == IF (i - 1) % 2 = 0 THEN root_degree
                          ELSE (root_degree + 4) % Len(scale)
            IN  Note(Clamp(28, 48, 36 + root + ScaleAt(scale, degree)),
                     time_pos + PatternTime(bass_pattern, i),
                     Beats(bass_pattern[i] * 8, 1000),
                     IF i = 1 THEN 70 ELSE 60)]

\* One pass through the body of the bass's while loop.
BassIteration(codons, root, scale, st) ==
    LET codon == codons[(st.codon_idx % Len(codons)) + 1]
        rest == CODON_TABLE[CodonIdx(codon)] = "*"
    IN  [time_pos |-> st.time_pos + 4 * Unit,
         codon_idx |-> st.codon_idx + 1,
         notes |-> IF rest THEN st.notes
                   ELSE st.notes \o BassCycle(codon, root, scale, st.time_pos),
         rests |-> st.rests + (IF rest THEN 1 ELSE 0),
         slots |-> st.slots + 1,
         plan |-> Append(st.plan, [time |-> st.time_pos, codon |-> codon, rest |-> rest])]

RECURSIVE BassLoop(_, _, _, _, _)
BassLoop(codons, root, scale, end_time, st) ==
    IF st.time_pos < end_time
    THEN BassLoop(codons, root, scale, end_time, BassIteration(codons, root, scale, st))
    ELSE st

\* _generate_bass_offset: the loop's final state.
generate_bass_offset(codons, root, scale, total_beats, time_offset) ==
    IF codons = <<>> THEN SlotStart(time_offset)
    ELSE BassLoop(codons, root, scale, time_offset + total_beats, SlotStart(time_offset))

\* --------------------------------------------------------------------- pad

\* pad_duration = 8.0, in ticks.
PadDuration == 8 * Unit

\* The notes of one pad chord.
PadChord(codon, root, scale, time_pos) ==
    LET root_degree == FIRST_BASE_DEGREE(codon[1])
        pad_degrees == <<0, 2, 4>>
    IN  [k \in 1..3 |->
            Note(Clamp(48, 72, 54 + root + scale[((root_degree + pad_degrees[k]) % Len(scale)) + 1]),
                 time_pos, PadDuration, 40)]

\* The pad's loop advancing one codon per chord, as the harmony does.
PadIterationByOne(codons, root, scale, st) ==
    LET codon == codons[(st.codon_idx % Len(codons)) + 1]
        rest == CODON_TABLE[CodonIdx(codon)] = "*"
    IN  [time_pos |-> st.time_pos + PadDuration,
         codon_idx |-> st.codon_idx + 1,
         notes |-> IF rest THEN st.notes
                   ELSE st.notes \o PadChord(codon, root, scale, st.time_pos),
         rests |-> st.rests + (IF rest THEN 1 ELSE 0),
         slots |-> st.slots + 1,
         plan |-> Append(st.plan, [time |-> st.time_pos, codon |-> codon, rest |-> rest])]

\* One pass through the body of the pad's while loop.
PadIteration(codons, root, scale, st) ==
    LET codon == codons[(st.codon_idx % Len(codons)) + 1]
        rest == CODON_TABLE[CodonIdx(codon)] = "*"
    IN  [time_pos |-> st.time_pos + PadDuration,
         codon_idx |-> st.codon_idx + 2,
         notes |-> IF rest THEN st.notes
                   ELSE st.notes \o PadChord(codon, root, scale, st.time_pos),
         rests |-> st.rests + (IF rest THEN 1 ELSE 0),
         slots |-> st.slots + 1,
         plan |-> Append(st.plan, [time |-> st.time_pos, codon |-> codon, rest |-> rest])]

RECURSIVE PadLoop(_, _, _, _, _)
PadLoop(codons, root, scale, end_time, st) ==
    IF st.time_pos < end_time
    THEN PadLoop(codons, root, scale, end_time, PadIteration(codons, root, scale, st))
    ELSE st

\* _generate_pad_offset, called with the codons argument given.
generate_pad_offset(root, scale, total_beats, time_offset, codons) ==
    IF codons = <<>> THEN SlotStart(time_offset)
    ELSE PadLoop(codons, root, scale, time_offset + total_beats, SlotStart(time_offset))

\* ------------------------------------------------------- short-sequence path

\* The loop of _generate_simple_midi over dna.upper(); time_pos in beats.
RECURSIVE SimpleLoop(_, _, _, _, _, _)
SimpleLoop(chars, i, duration, root, scale, st) ==
    IF i > Len(chars) \/ st.time_pos >= duration * 2 THEN st.notes
    ELSE IF chars[i] \in Bases
    THEN SimpleLoop(chars, i + 1, duration, root, scale,
             [time_pos |-> st.time_pos + 1,
              notes |-> Append(st.notes,
                           Note(60 + root + ScaleAt(scale, FIRST_BASE_DEGREE(chars[i])),
                                st.time_pos * Unit, Unit, 70))])
    ELSE SimpleLoop(chars, i + 1, duration, root, scale, st)

\* _generate_simple_midi: the notes of the single track (dna is a string).
generate_simple_midi(chars, duration, analysis) ==
    SimpleLoop(Upper(chars), 1, duration, analysis.root_note, analysis.scale,
               [time_pos |-> 0, notes |-> <<>>])

\* ------------------------------------------------------------------ inputs

\* The characters of the inputs enumerated character by character: the four
\* bases, a lower-case base, a letter that is no base, and a blank.
ShortAlphabet == {"A", "T", "G", "C", "g", "N", " "}

\* The triplets the longer inputs are built from: the start codon, two stop
\* codons, two amino-acid codons (one in lower case) and a triplet of an
\* invalid letter, a blank and a lower-case base.
Pool ==
    { <<"A", "T", "G">>, <<"T", "A", "A">>, <<"T", "G", "A">>,
      <<"g", "c", "c">>, <<"A", "G", "G">>,
      <<"N", " ", "g">> }

ShortInputs == UNION {StringsOfLen(ShortAlphabet, n) : n \in 0..MaxShort}

TripletInputs ==
    UNION { {Flatten(cs) : cs \in StringsOfLen(Pool, n)} : n \in 1..MaxCodons }

\* Sequences long enough for the melody to reach a phrase boundary with
\* codons still ahead: MaxLongCodons - 1 and MaxLongCodons codons, none of
\* them a start or stop codon.
LongStrand(n) ==
    [i \in 1..n |-> IF i % 3 = 0 THEN <<"A", "G", "G">> ELSE <<"g", "c", "c">>]

LongInputs == {Flatten(LongStrand(n)) : n \in (MaxLongCodons - 1)..MaxLongCodons}

Inputs ==
    {None} \cup {Str(chars) : chars \in ShortInputs \cup TripletInputs \cup LongInputs}

\* Requested durations, in seconds.
Durations == {DurStep * k : k \in (-1)..MaxDurSteps}

\* ------------------------------------------------------------ generate_midi

VARIABLES
    dna,                \* the dna argument
    duration,           \* the duration argument, seconds
    pc,                 \* where generate_midi stands
    analysis,           \* analysis = self.analyze(dna)
    tracks,             \* the MIDIFile: one sequence of notes per track
    structure,          \* structure = self._find_structure_codons(codons)
    total_beats,        \* beats
    time_offset,        \* beats
    main_section_beats, \* beats
    main_codons,
    last_stop,
    counters,           \* loop passes and branches taken by the generators
    info,               \* has_intro / has_outro / stop_codon of the returned dict
    raised,             \* the exception that ended the call, "" for none
    ratio,              \* the ratio argument of _get_root_key / _get_mode, num/den
    band,               \* what the band lookup returned
    snap,               \* the arguments and results of _snap_to_scale
    clock,              \* server.py: the wall clock, in ticks
    rate_limit_store,   \* server.py: rate_limit_store, ip -> list of timestamps
    threads,            \* server.py: each request thread's position and locals
    requests,           \* server.py: requests received so far
    accepted,           \* server.py: the calls of check_rate_limit that returned True
    files               \* server.py: the output paths api_generate handed out

vars == <<dna, duration, pc, analysis, tracks, structure, total_beats, time_offset,
          main_section_beats, main_codons, last_stop, counters, info, raised,
          ratio, band, snap, clock, rate_limit_store, threads, requests, accepted, files>>

\* The variables of the web server.
server_vars == <<clock, rate_limit_store, threads, requests, accepted, files>>

NoStructure ==
    [has_start |-> FALSE, has_stop |-> FALSE, first_start |-> -1,
     last_stop |-> NoCodon, last_stop_idx |-> -1]

NoCounters ==
    [melody_rests |-> 0, fifth_shifts |-> 0, contour_shifts |-> 0,
     melody_time_pos |-> 0, melody_codon_idx |-> 0,
     harmony_rests |-> 0, harmony_slots |-> 0, harmony_plan |-> <<>>,
     bass_rests |-> 0, bass_slots |-> 0, bass_plan |-> <<>>,
     pad_rests |-> 0, pad_slots |-> 0, pad_plan |-> <<>>]

NoInfo == [set |-> FALSE, has_intro |-> FALSE, has_outro |-> FALSE, stop_codon |-> NoCodon]

\* No band lookup has been made on its own.
NoRatio == [num |-> 1, den |-> 1]
NoBand == [table |-> "", matches |-> {}, fallback |-> FALSE, note |-> 0, name |-> ""]

\* _snap_to_scale has not been called on its own.
NoSnap == [pitch |-> 0, root |-> 0, mode |-> 1, once |-> 0, twice |-> 0]

\* The request threads of the server.
Threads == 1..NThreads

\* The client addresses requests come from.
IPs == {"10.0.0.1", "10.0.0.2"}

IdleThread == [pc |-> "idle", ip |-> "", now |-> 0, cleaned |-> <<>>]

\* The server after start-up: rate_limit_store = defaultdict(list), no request yet.
ServerStart ==
    /\ clock = 0
    /\ rate_limit_store = [ip \in IPs |-> <<>>]
    /\ threads = [t \in Threads |-> IdleThread]
    /\ requests = 0
    /\ accepted = <<>>
    /\ files = <<>>

Init ==
    /\ dna \in Inputs
    /\ duration \in Durations
    /\ pc = "start"
    /\ analysis = default_analysis
    /\ tracks = <<>>
    /\ structure = NoStructure
    /\ total_beats = 0
    /\ time_offset = 0
    /\ main_section_beats = 0
    /\ main_codons = <<>>
    /\ last_stop = NoCodon
    /\ counters = NoCounters
    /\ info = NoInfo
    /\ raised = ""
    /\ ratio = NoRatio
    /\ band = NoBand
    /\ snap = NoSnap
    /\ ServerStart

\* tracks with notes added to track k (counted from 0).
AddNotes(trs, k, notes) == [trs EXCEPT ![k + 1] = trs[k + 1] \o notes]

\* tracks with a section's notes added to each of the four tracks.
AddSection(trs, section) == [k \in 1..4 |-> trs[k] \o section[k]]

\* total_beats = int(duration * (tempo / 60))
TotalBeats(seconds, tempo) == Trunc(seconds * tempo, 60)

\* analysis = self.analyze(dna)
Analyze ==
    /\ UNCHANGED <<ratio, band, snap, server_vars>>
    /\ pc = "start"
    /\ analysis' = analyze(dna)
    /\ pc' = "analyzed"
    /\ UNCHANGED <<dna, duration, tracks, structure, total_beats, time_offset,
                   main_section_beats, main_codons, last_stop, counters, info, raised>>

\* codon_count < 3: return self._generate_simple_midi(...).  dna.upper()
\* raises AttributeError on None, after MIDIFile(1) was made.
SimpleMidi ==
    /\ UNCHANGED <<ratio, band, snap, server_vars>>
    /\ pc = "analyzed"
    /\ analysis.codon_count < 3
    /\ IF dna.none
       THEN /\ tracks' = << <<>> >>
            /\ raised' = "AttributeError"
            /\ pc' = "raised"
       ELSE /\ tracks' = << generate_simple_midi(dna.chars, duration, analysis) >>
            /\ raised' = raised
            /\ pc' = "done"
    /\ UNCHANGED <<dna, duration, analysis, structure, total_beats, time_offset,
                   main_section_beats, main_codons, last_stop, counters, info>>

\* Lines 737-778: structure, MIDIFile(4), total_beats, time_offset,
\* main_section_beats.
Setup ==
    /\ UNCHANGED <<ratio, band, snap, server_vars>>
    /\ pc = "analyzed"
    /\ analysis.codon_count >= 3
    /\ structure' = find_structure_codons(analysis.codons)
    /\ tracks' = << <<>>, <<>>, <<>>, <<>> >>
    /\ total_beats' = TotalBeats(duration, analysis.tempo)
    /\ time_offset' = 0
    /\ main_section_beats' = TotalBeats(duration, analysis.tempo)
    /\ pc' = "intro"
    /\ UNCHANGED <<dna, duration, analysis, main_codons, last_stop, counters, info, raised>>

\* The intro test without the position of the first ATG.
HasIntroAnywhere(st) == st.has_start

\* if structure['has_start'] and structure['first_start'] == 0
HasIntro(st) == st.has_start /\ st.first_start = 0

\* Lines 780-788: the intro, when the first codon is ATG.
Intro ==
    /\ UNCHANGED <<ratio, band, snap, server_vars>>
    /\ pc = "intro"
    /\ IF HasIntro(structure)
       THEN /\ tracks' = AddSection(tracks, generate_intro(analysis.root_note, analysis.scale))
            /\ time_offset' = 8
            /\ main_section_beats' = main_section_beats - 8
            /\ main_codons' = Tail(analysis.codons)
       ELSE /\ main_codons' = analysis.codons
            /\ UNCHANGED <<tracks, time_offset, main_section_beats>>
    /\ pc' = "reserve"
    /\ UNCHANGED <<dna, duration, analysis, structure, total_beats, last_stop,
                   counters, info, raised>>

\* [c for c in main_codons if c not in ['TAA', 'TAG', 'TGA']]
RECURSIVE WithoutStops(_)
WithoutStops(codons) ==
    IF codons = <<>> THEN <<>>
    ELSE (IF Head(codons) \in STOP_CODONS THEN <<>> ELSE <<Head(codons)>>)
         \o WithoutStops(Tail(codons))

\* The main section given the codons as they are.
MainCodonsUnfiltered(codons, has_stop) == codons

\* The codons handed to the main-section generators once the outro is reserved.
MainCodons(codons, has_stop) == IF has_stop THEN WithoutStops(codons) ELSE codons

\* The main section without its floor of 8 beats.
EnsureMainNoFloor(beats) == beats

\* main_section_beats = max(8.0, main_section_beats)
EnsureMain(beats) == Max(8, beats)

\* Lines 790-803: reserve the outro, drop the stop codons, floor the main
\* section at 8 beats.
ReserveOutro ==
    /\ UNCHANGED <<ratio, band, snap, server_vars>>
    /\ pc = "reserve"
    /\ last_stop' = IF structure.has_stop THEN structure.last_stop ELSE NoCodon
    /\ main_codons' = MainCodons(main_codons, structure.has_stop)
    /\ main_section_beats' =
          EnsureMain(IF structure.has_stop THEN main_section_beats - 8 ELSE main_section_beats)
    /\ pc' = "melody"
    /\ UNCHANGED <<dna, duration, analysis, tracks, structure, total_beats, time_offset,
                   counters, info, raised>>

\* self._generate_melody_offset(midi, main_codons, root, scale,
\*     main_section_beats, analysis, time_offset)
Melody ==
    /\ UNCHANGED <<ratio, band, snap, server_vars>>
    /\ pc = "melody"
    /\ LET m == generate_melody_offset(main_codons, analysis.root_note, analysis.scale,
                    main_section_beats * Unit, analysis, time_offset * Unit)
       IN  /\ tracks' = AddNotes(tracks, 0, m.notes)
           /\ counters' = [counters EXCEPT !.melody_rests = m.rests,
                                           !.fifth_shifts = m.fifth_shifts,
                                           !.contour_shifts = m.contour_shifts,
                                           !.melody_time_pos = m.time_pos,
                                           !.melody_codon_idx = m.codon_idx]
           /\ raised' = IF m.raised THEN "UnboundLocalError" ELSE raised
           /\ pc' = IF m.raised THEN "raised" ELSE "harmony"
    /\ UNCHANGED <<dna, duration, analysis, structure, total_beats, time_offset,
                   main_section_beats, main_codons, last_stop, info>>

\* self._generate_harmony_offset(midi, main_codons, root, scale,
\*     main_section_beats, time_offset)
Harmony ==
    /\ UNCHANGED <<ratio, band, snap, server_vars>>
    /\ pc = "harmony"
    /\ LET h == generate_harmony_offset(main_codons, analysis.root_note, analysis.scale,
                    main_section_beats * Unit, time_offset * Unit)
       IN  /\ tracks' = AddNotes(tracks, 1, h.notes)
           /\ counters' = [counters EXCEPT !.harmony_rests = h.rests,
                                           !.harmony_slots = h.slots,
                                           !.harmony_plan = h.plan]
    /\ pc' = "bass"
    /\ UNCHANGED <<dna, duration, analysis, structure, total_beats, time_offset,
                   main_section_beats, main_codons, last_stop, info, raised>>

\* self._generate_bass_offset(midi, main_codons, root, scale,
\*     main_section_beats, time_offset)
Bass ==
    /\ UNCHANGED <<ratio, band, snap, server_vars>>
    /\ pc = "bass"
    /\ LET b == generate_bass_offset(main_codons, analysis.root_note, analysis.scale,
                    main_section_beats * Unit, time_offset * Unit)
       IN  /\ tracks' = AddNotes(tracks, 2, b.notes)
           /\ counters' = [counters EXCEPT !.bass_rests = b.rests,
                                           !.bass_slots = b.slots,
                                           !.bass_plan = b.plan]
    /\ pc' = "pad"
    /\ UNCHANGED <<dna, duration, analysis, structure, total_beats, time_offset,
                   main_section_beats, main_codons, last_stop, info, raised>>

\* self._generate_pad_offset(midi, root, scale, main_section_beats, analysis,
\*     time_offset, main_codons)
Pad ==
    /\ UNCHANGED <<ratio, band, snap, server_vars>>
    /\ pc = "pad"
    /\ LET p == generate_pad_offset(analysis.root_note, analysis.scale,
                    main_section_beats * Unit, time_offset * Unit, main_codons)
       IN  /\ tracks' = AddNotes(tracks, 3, p.notes)
           /\ counters' = [counters EXCEPT !.pad_rests = p.rests,
                                           !.pad_slots = p.slots,
                                           !.pad_plan = p.plan]
    /\ pc' = "outro"
    /\ UNCHANGED <<dna, duration, analysis, structure, total_beats, time_offset,
                   main_section_beats, main_codons, last_stop, info, raised>>

\* The outro started where the main section starts.
OutroStartAtOffset(offset, main_beats) == offset

\* outro_start = time_offset + main_section_beats
OutroStart(offset, main_beats) == offset + main_beats

\* Lines 811-814: the outro, when a stop codon was found.
Outro ==
    /\ UNCHANGED <<ratio, band, snap, server_vars>>
    /\ pc = "outro"
    /\ tracks' = IF last_stop # NoCodon
                 THEN AddSection(tracks,
                          generate_outro(analysis.root_note, analysis.scale,
                              OutroStart(time_offset, main_section_beats) * Unit, last_stop))
                 ELSE tracks
    /\ pc' = "write"
    /\ UNCHANGED <<dna, duration, analysis, structure, total_beats, time_offset,
                   main_section_beats, main_codons, last_stop, counters, info, raised>>

\* Lines 816-825: write the file, add the structure info, return.
Finish ==
    /\ UNCHANGED <<ratio, band, snap, server_vars>>
    /\ pc = "write"
    /\ info' = [set |-> TRUE,
                has_intro |-> HasIntro(structure),
                has_outro |-> structure.has_stop,
                stop_codon |-> last_stop]
    /\ pc' = "done"
    /\ UNCHANGED <<dna, duration, analysis, tracks, structure, total_beats, time_offset,
                   main_section_beats, main_codons, last_stop, counters, raised>>

Next ==
    \/ Analyze
    \/ SimpleMidi
    \/ Setup
    \/ Intro
    \/ ReserveOutro
    \/ Melody
    \/ Harmony
    \/ Bass
    \/ Pad
    \/ Outro
    \/ Finish

Spec == Init /\ [][Next]_vars

\* ------------------------------------------- analyze alone (pure function)

\* The characters of the inputs of the analysis-only specification: three
\* upper-case bases, a lower-case base and a blank.
AnalyzeAlphabet == {"A", "T", "G", "c", " "}

\* A strand of bases no 6 of which repeat, the source of the repeated blocks.
Strand ==
    <<"A", "T", "G", "G", "C", "A", "T", "T", "A", "C", "G", "A", "C", "T", "G", "T">>

\* k copies of a block, one after the other.
Repeat(block, k) == [i \in 1..(k * Len(block)) |-> block[((i - 1) % Len(block)) + 1]]

\* Sequences that repeat a leading block of the strand.
RepeatedInputs ==
    {Repeat(SubSeq(Strand, 1, n), k) : n \in 1..MaxBlock, k \in 2..MaxCopies}

AnalyzeInputs ==
    {None} \cup {Str(chars) : chars \in UNION {StringsOfLen(AnalyzeAlphabet, n) : n \in 0..MaxLen}}
           \cup {Str(chars) : chars \in RepeatedInputs}

InitAnalyze ==
    /\ dna \in AnalyzeInputs
    /\ duration = 0
    /\ pc = "start"
    /\ analysis = default_analysis
    /\ tracks = <<>>
    /\ structure = NoStructure
    /\ total_beats = 0
    /\ time_offset = 0
    /\ main_section_beats = 0
    /\ main_codons = <<>>
    /\ last_stop = NoCodon
    /\ counters = NoCounters
    /\ info = NoInfo
    /\ raised = ""
    /\ ratio = NoRatio
    /\ band = NoBand
    /\ snap = NoSnap
    /\ ServerStart

NextAnalyze == Analyze

SpecAnalyze == InitAnalyze /\ [][NextAnalyze]_vars

\* ------------------------------------- the band lookups alone (pure functions)

\* The ratios handed to the lookups: a count of bases over a positive count.
Ratios == {[num |-> n, den |-> d] : n \in 0..MaxRatioNum, d \in 1..MaxRatioDen}

\* The bands of a table with low <= ratio < high.
Matches(table, num, den) == {k \in 1..Len(table) : InBand(table[k], num, den)}

InitBands ==
    /\ dna = None
    /\ duration = 0
    /\ pc = "start"
    /\ analysis = default_analysis
    /\ tracks = <<>>
    /\ structure = NoStructure
    /\ total_beats = 0
    /\ time_offset = 0
    /\ main_section_beats = 0
    /\ main_codons = <<>>
    /\ last_stop = NoCodon
    /\ counters = NoCounters
    /\ info = NoInfo
    /\ raised = ""
    /\ ratio \in Ratios
    /\ band = NoBand
    /\ snap = NoSnap
    /\ ServerStart

\* self._get_root_key(ratio)
GetRootKey ==
    /\ pc = "start"
    /\ LET key == get_root_key(ratio.num, ratio.den)
       IN  band' = [table |-> "ROOT_KEYS",
                    matches |-> Matches(ROOT_KEYS, ratio.num, ratio.den),
                    fallback |-> FirstBand(ROOT_KEYS, ratio.num, ratio.den, 1) = 0,
                    note |-> key.note, name |-> key.name]
    /\ pc' = "key"
    /\ UNCHANGED <<dna, duration, analysis, tracks, structure, total_beats, time_offset,
                   main_section_beats, main_codons, last_stop, counters, info, raised, ratio,
                   snap, server_vars>>

\* self._get_mode(ratio)
GetMode ==
    /\ pc = "start"
    /\ LET mode == get_mode(ratio.num, ratio.den)
       IN  band' = [table |-> "MODES",
                    matches |-> Matches(MODES, ratio.num, ratio.den),
                    fallback |-> FirstBand(MODES, ratio.num, ratio.den, 1) = 0,
                    note |-> mode.scale[2], name |-> mode.name]
    /\ pc' = "mode"
    /\ UNCHANGED <<dna, duration, analysis, tracks, structure, total_beats, time_offset,
                   main_section_beats, main_codons, last_stop, counters, info, raised, ratio,
                   snap, server_vars>>

NextBands ==
    \/ GetRootKey
    \/ GetMode

SpecBands == InitBands /\ [][NextBands]_vars

\* ---------------------------------------------------------------------
\* _snap_to_scale on its own: one pitch, root and mode per behaviour
\* ---------------------------------------------------------------------

SnapInputs ==
    {[pitch |-> p, root |-> r, mode |-> m, once |-> 0, twice |-> 0] :
        p \in (-MaxPitch)..MaxPitch, r \in 0..11, m \in 1..Len(MODES)}

InitSnap ==
    /\ dna = None
    /\ duration = 0
    /\ pc = "start"
    /\ analysis = default_analysis
    /\ tracks = <<>>
    /\ structure = NoStructure
    /\ total_beats = 0
    /\ time_offset = 0
    /\ main_section_beats = 0
    /\ main_codons = <<>>
    /\ last_stop = NoCodon
    /\ counters = NoCounters
    /\ info = NoInfo
    /\ raised = ""
    /\ ratio = NoRatio
    /\ band = NoBand
    /\ snap \in SnapInputs
    /\ ServerStart

\* snapped = self._snap_to_scale(pitch, root, scale)
SnapToScale ==
    /\ pc = "start"
    /\ snap' = [snap EXCEPT !.once = snap_to_scale(snap.pitch, snap.root, MODES[snap.mode].scale)]
    /\ pc' = "snapped"
    /\ UNCHANGED <<dna, duration, analysis, tracks, structure, total_beats, time_offset,
                   main_section_beats, main_codons, last_stop, counters, info, raised,
                   ratio, band, server_vars>>

\* self._snap_to_scale(snapped, root, scale)
SnapAgain ==
    /\ pc = "snapped"
    /\ snap' = [snap EXCEPT !.twice = snap_to_scale(snap.once, snap.root, MODES[snap.mode].scale)]
    /\ pc' = "resnapped"
    /\ UNCHANGED <<dna, duration, analysis, tracks, structure, total_beats, time_offset,
                   main_section_beats, main_codons, last_stop, counters, info, raised,
                   ratio, band, server_vars>>

NextSnap ==
    \/ SnapToScale
    \/ SnapAgain

SpecSnap == InitSnap /\ [][NextSnap]_vars

\* ---------------------------------------------------------------------
\* server.py: request threads passing the rate limiter and api_generate
\* ---------------------------------------------------------------------

InitServer ==
    /\ dna = None
    /\ duration = 0
    /\ pc = "start"
    /\ analysis = default_analysis
    /\ tracks = <<>>
    /\ structure = NoStructure
    /\ total_beats = 0
    /\ time_offset = 0
    /\ main_section_beats = 0
    /\ main_codons = <<>>
    /\ last_stop = NoCodon
    /\ counters = NoCounters
    /\ info = NoInfo
    /\ raised = ""
    /\ ratio = NoRatio
    /\ band = NoBand
    /\ snap = NoSnap
    /\ ServerStart

\* The variables of generate_midi and of the lookups, untouched by the server.
engine_vars == <<dna, duration, pc, analysis, tracks, structure, total_beats, time_offset,
                 main_section_beats, main_codons, last_stop, counters, info, raised,
                 ratio, band, snap>>

\* The steps the clock can make: one tick, or a whole minute.
ClockSteps == {1, 60 * TicksPerSecond}

\* Time passes. The model follows the clock for about a second after each
\* whole minute, up to MaxSeconds.
Tick ==
    /\ \E d \in ClockSteps :
          /\ clock + d <= MaxSeconds * TicksPerSecond
          /\ (clock + d) % (60 * TicksPerSecond) <= TicksPerSecond
          /\ clock' = clock + d
    /\ UNCHANGED <<engine_vars, rate_limit_store, threads, requests, accepted, files>>

\* A request arrives and a thread starts rate_limited's wrapper:
\* ip = request.remote_addr
Arrive(t) ==
    /\ threads[t].pc = "idle"
    /\ requests < MaxRequests
    /\ \E ip \in IPs :
          threads' = [threads EXCEPT ![t] =
                         [pc |-> "check_rate_limit", ip |-> ip, now |-> 0, cleaned |-> <<>>]]
    /\ requests' = requests + 1
    /\ UNCHANGED <<engine_vars, clock, rate_limit_store, accepted, files>>

\* now = time.time(); minute_ago = now - 60
ReadClock(t) ==
    /\ threads[t].pc = "check_rate_limit"
    /\ threads' = [threads EXCEPT ![t].now = clock, ![t].pc = "clean"]
    /\ UNCHANGED <<engine_vars, clock, rate_limit_store, requests, accepted, files>>

\* [t for t in rate_limit_store[ip] if t > minute_ago]
RecentEntries(entries, now) ==
    LET Recent(x) == x > now - 60 * TicksPerSecond
    IN  SelectSeq(entries, Recent)

\* The right-hand side of line 70: the list comprehension is evaluated.
CleanRead(t) ==
    /\ threads[t].pc = "clean"
    /\ threads' = [threads EXCEPT
                      ![t].cleaned = RecentEntries(rate_limit_store[threads[t].ip], threads[t].now),
                      ![t].pc = "assign"]
    /\ UNCHANGED <<engine_vars, clock, rate_limit_store, requests, accepted, files>>

\* The assignment of line 70: rate_limit_store[ip] = <the new list>
CleanWrite(t) ==
    /\ threads[t].pc = "assign"
    /\ rate_limit_store' = [rate_limit_store EXCEPT ![threads[t].ip] = threads[t].cleaned]
    /\ threads' = [threads EXCEPT ![t].pc = "test"]
    /\ UNCHANGED <<engine_vars, clock, requests, accepted, files>>

\* if len(rate_limit_store[ip]) >= RATE_LIMIT: return False   (answered 429)
TestLimit(t) ==
    /\ threads[t].pc = "test"
    /\ threads' = IF Len(rate_limit_store[threads[t].ip]) >= RATE_LIMIT
                  THEN [threads EXCEPT ![t] = IdleThread]
                  ELSE [threads EXCEPT ![t].pc = "append"]
    /\ UNCHANGED <<engine_vars, clock, rate_limit_store, requests, accepted, files>>

\* rate_limit_store[ip].append(now); return True
AppendNow(t) ==
    /\ threads[t].pc = "append"
    /\ rate_limit_store' = [rate_limit_store EXCEPT
                               ![threads[t].ip] = Append(@, threads[t].now)]
    /\ accepted' = Append(accepted, [ip |-> threads[t].ip, now |-> threads[t].now])
    /\ threads' = [threads EXCEPT ![t].pc = "api_generate"]
    /\ UNCHANGED <<engine_vars, clock, requests, files>>

\* datetime.now().strftime("%Y%m%d_%H%M%S"): the time to the whole second.
Timestamp(ticks) == ticks \div TicksPerSecond

\* api_generate: 400 for a missing or short dna; otherwise the output paths
\* dna_<timestamp>.mid and dna_<timestamp>.mp3 are chosen and written.
ApiGenerate(t) ==
    /\ threads[t].pc = "api_generate"
    /\ \E valid \in BOOLEAN :
          files' = IF valid
                   THEN Append(files,
                            [midi_path |-> <<"dna_", Timestamp(clock), ".mid">>,
                             mp3_path |-> <<"dna_", Timestamp(clock), ".mp3">>])
                   ELSE files
    /\ threads' = [threads EXCEPT ![t] = IdleThread]
    /\ UNCHANGED <<engine_vars, clock, rate_limit_store, requests, accepted>>

NextServer ==
    \/ Tick
    \/ \E t \in Threads : Arrive(t)
    \/ \E t \in Threads : ReadClock(t)
    \/ \E t \in Threads : CleanRead(t)
    \/ \E t \in Threads : CleanWrite(t)
    \/ \E t \in Threads : TestLimit(t)
    \/ \E t \in Threads : AppendNow(t)
    \/ \E t \in Threads : ApiGenerate(t)

SpecServer == InitServer /\ [][NextServer]_vars

\* ================================================================== claims

\* The characters of the input that are G or C in either case.
GCCount(chars) == Cardinality({i \in 1..Len(chars) : chars[i] \in {"G", "C", "g", "c"}})

\* The set of pitch classes of the analysed scale.
ScaleSet == {analysis.scale[i] : i \in 1..Len(analysis.scale)}

\* (pitch - root) mod 12 is a member of the active scale.
InKey(pitch) == ((pitch - analysis.root_note) % 12) \in ScaleSet

\* The number of melody notes the intro has put on track 0.
IntroMelodyNotes == IF HasIntro(structure) THEN 6 ELSE 0

\* C1: analyze returns the fixed default Analysis (key C, root 0, aeolian,
\* scale [0,2,3,5,7,8,10], tempo 72, no codons, amino acids or motifs,
\* codon_count 0) for None, the empty string and every string of fewer than
\* 3 characters.
C1_DefaultForShort ==
    (pc = "analyzed" /\ (dna.none \/ Len(dna.chars) < 3)) =>
        /\ analysis.key = "C"
        /\ analysis.root_note = 0
        /\ analysis.mode = "aeolian"
        /\ analysis.scale = <<0, 2, 3, 5, 7, 8, 10>>
        /\ analysis.tempo = 72
        /\ analysis.codons = <<>>
        /\ analysis.amino_acids = <<>>
        /\ analysis.motifs = <<>>
        /\ analysis.codon_count = 0

\* A two-character string of G and C, which a full analysis would put at
\* tempo 100, has been analysed.
C1_Witness ==
    /\ pc = "analyzed"
    /\ ~dna.none
    /\ dna.chars = <<"G", "c">>
    /\ analysis.tempo = 72

\* C2: for every string with codon_count < 3 and every positive duration,
\* generate_midi takes the fallback path and the fallback score has exactly
\* one track, holding at least one note.
C2_FallbackHasNote ==
    (pc = "done" /\ ~dna.none /\ analysis.codon_count < 3 /\ duration > 0) =>
        /\ ~info.set
        /\ Len(tracks) = 1
        /\ Len(tracks[1]) >= 1

\* C3: with codon_count >= 3, every note on the melody track (intro, main
\* section, outro) has a pitch in [48, 84] whose pitch class relative to the
\* root belongs to the active scale.
C3_MelodyInRangeAndKey ==
    Len(tracks) = 4 =>
        \A i \in 1..Len(tracks[1]) :
            /\ tracks[1][i].pitch >= 48
            /\ tracks[1][i].pitch <= 84
            /\ InKey(tracks[1][i].pitch)

\* C4: two notes the melody loop emits one after the other, with no rest
\* taken between them, differ by at most 5 semitones.
C4_StepwiseMelody ==
    (pc = "harmony" /\ counters.melody_rests = 0) =>
        \A i \in (IntroMelodyNotes + 1)..(Len(tracks[1]) - 1) :
            Abs(tracks[1][i + 1].pitch - tracks[1][i].pitch) <= 5

\* C5: with codon_count >= 3 the score has exactly 4 tracks and each of them
\* holds at least one note.
C5_FourTracksWithNotes ==
    (pc = "done" /\ analysis.codon_count >= 3) =>
        /\ Len(tracks) = 4
        /\ \A k \in 1..4 : Len(tracks[k]) >= 1

\* A score is finished whose main section had no codon left (every codon
\* after the intro's ATG was a stop codon).
C5_Witness ==
    /\ pc = "done"
    /\ analysis.codon_count >= 3
    /\ main_codons = <<>>
    /\ \A k \in 1..4 : Len(tracks[k]) >= 1

\* C6: every note on every track, on every path, has a duration > 0.
C6_PositiveDurations ==
    \A k \in 1..Len(tracks) : \A i \in 1..Len(tracks[k]) : tracks[k][i].duration > 0

\* A four-track score with intro, main section and outro is finished, its
\* melody holding a note of the shortest length the code can emit.
C6_Witness ==
    /\ pc = "done"
    /\ info.has_intro /\ info.has_outro
    /\ main_codons # <<>>
    /\ \E i \in 1..Len(tracks[1]) : tracks[1][i].duration = NoteDuration(Beats(1, 4))

\* C7: on each track the notes are added in non-decreasing order of start
\* time, over the whole of generate_midi.
C7_MonotoneStarts ==
    \A k \in 1..Len(tracks) :
        \A i \in 1..(Len(tracks[k]) - 1) : tracks[k][i].time <= tracks[k][i + 1].time

\* C8: with codon_count >= 3, the 4-beat slots the harmony generator walks
\* sum to at least main_section_beats, and intro, main section and outro
\* together span at least total_beats.
C8_ScheduleCovers ==
    (pc = "done" /\ analysis.codon_count >= 3) =>
        /\ 4 * counters.harmony_slots >= main_section_beats
        /\ time_offset + main_section_beats + (IF info.has_outro THEN 8 ELSE 0) >= total_beats

\* C10 as stated: for every sequence of length >= 3,
\* tempo = floor(65 + 30 * (G+C)/length), within [65, 95].
C10_TempoAsStated ==
    (pc = "analyzed" /\ ~dna.none /\ Len(dna.chars) >= 3) =>
        /\ analysis.tempo = (65 * Len(dna.chars) + 30 * GCCount(dna.chars)) \div Len(dna.chars)
        /\ analysis.tempo >= 65
        /\ analysis.tempo <= 95

\* C10 amended: for every sequence of length >= 3,
\* tempo = floor(60 + 40 * (G+C)/length), within [60, 100].
C10_Tempo ==
    (pc = "analyzed" /\ ~dna.none /\ Len(dna.chars) >= 3) =>
        /\ analysis.tempo * Len(dna.chars) <= 60 * Len(dna.chars) + 40 * GCCount(dna.chars)
        /\ (analysis.tempo + 1) * Len(dna.chars) > 60 * Len(dna.chars) + 40 * GCCount(dna.chars)
        /\ analysis.tempo >= 60
        /\ analysis.tempo <= 100

\* A sequence of length >= 3 with G+C strictly between none and all of it has
\* been analysed, at a tempo strictly inside the range.
C10_Witness ==
    /\ pc = "analyzed"
    /\ ~dna.none
    /\ Len(dna.chars) >= 3
    /\ GCCount(dna.chars) = 2
    /\ Len(dna.chars) = 5
    /\ analysis.tempo = 76

\* The 64 triplets over the four bases.
AllCodons == [1..3 -> Bases]

\* The one-letter amino-acid symbols and the stop marker.
AminoSymbols ==
    {"A", "R", "N", "D", "C", "Q", "E", "G", "H", "I", "L", "K", "M", "F", "P", "S",
     "T", "W", "Y", "V", "*"}

\* C11: CODON_TABLE is defined on exactly the 64 triplets over {A,T,G,C}, each
\* mapped to one amino-acid symbol; exactly TAA, TAG and TGA map to the stop
\* marker, ATG maps to M and GGG maps to G; the amino-acid list of an analysis
\* is the table applied to its codons.
C11_CodonTable ==
    /\ Len(CODON_TABLE) = 64
    /\ {CodonIdx(c) : c \in AllCodons} = 1..64
    /\ \A c \in AllCodons : CODON_TABLE[CodonIdx(c)] \in AminoSymbols
    /\ {c \in AllCodons : CODON_TABLE[CodonIdx(c)] = "*"} = STOP_CODONS
    /\ CODON_TABLE[CodonIdx(ATG)] = "M"
    /\ CODON_TABLE[CodonIdx(<<"G", "G", "G">>)] = "G"
    /\ pc = "analyzed" =>
          /\ Len(analysis.amino_acids) = Len(analysis.codons)
          /\ \A k \in 1..Len(analysis.codons) :
                /\ analysis.amino_acids[k] \in AminoSymbols
                /\ (analysis.amino_acids[k] = "*") = (analysis.codons[k] \in STOP_CODONS)

\* The sequence ATGTGA has been analysed: methionine, then a stop.
C11_Witness ==
    /\ pc = "analyzed"
    /\ analysis.codons = <<ATG, <<"T", "G", "A">> >>
    /\ analysis.amino_acids = <<"M", "*">>

\* Some 6-character substring of valid bases occurs at two or more positions.
HasRepeated6(sequence) ==
    \E i, j \in 1..(Len(sequence) - 5) :
        /\ i < j
        /\ SubSeq(sequence, i, i + 5) = SubSeq(sequence, j, j + 5)
        /\ \A k \in i..(i + 5) : sequence[k] \in Bases

\* The number of positions at which the 6 characters at position i occur.
Occurrences6(sequence, i) ==
    Cardinality({j \in 1..(Len(sequence) - 5) :
                    SubSeq(sequence, j, j + 5) = SubSeq(sequence, i, i + 5)})

\* The motif list holds a motif of length 6 with count >= 2.
HasMotif6 ==
    \E k \in 1..Len(analysis.motifs) :
        analysis.motifs[k].length = 6 /\ analysis.motifs[k].count >= 2

\* C12 as stated: whenever a 6-character substring of valid bases occurs at
\* two or more positions, the motif list contains a motif of length 6 with
\* count >= 2.
C12_Motif6AsStated ==
    (pc = "analyzed" /\ ~dna.none /\ HasRepeated6(Upper(dna.chars))) => HasMotif6

\* C12 amended: whenever a 6-character substring of valid bases occurs at two
\* or more positions, the motif list is not empty, holds at most 5 motifs,
\* each with count >= 2 and a length among 6, 9, 12, 15, 18; its first motif
\* occurs as often as the most frequent valid 6-character substring; and it
\* contains a motif of length 6 whenever it holds fewer than 5 motifs.
C12_Motifs ==
    (pc = "analyzed" /\ ~dna.none /\ HasRepeated6(Upper(dna.chars))) =>
        LET sequence == Upper(dna.chars)
            motifs == analysis.motifs
        IN  /\ Len(motifs) \in 1..5
            /\ \A k \in 1..Len(motifs) :
                  motifs[k].count >= 2 /\ motifs[k].length \in {6, 9, 12, 15, 18}
            /\ \A i \in 1..(Len(sequence) - 5) :
                  (\A k \in i..(i + 5) : sequence[k] \in Bases)
                      => Occurrences6(sequence, i) <= motifs[1].count
            /\ \E i \in 1..(Len(sequence) - 5) :
                  /\ \A k \in i..(i + 5) : sequence[k] \in Bases
                  /\ Occurrences6(sequence, i) = motifs[1].count
            /\ Len(motifs) < 5 => HasMotif6

\* A sequence with a repeated 6-character substring has been analysed and
\* its five motifs are all longer than 6.
C12_Witness ==
    /\ pc = "analyzed"
    /\ ~dna.none
    /\ HasRepeated6(Upper(dna.chars))
    /\ Len(analysis.motifs) = 5
    /\ ~HasMotif6

\* The input is a string of three or more triplets, each of them TAA, TAG or
\* TGA.
AllStopInput ==
    /\ ~dna.none
    /\ Len(dna.chars) >= 9
    /\ Len(dna.chars) % 3 = 0
    /\ \A k \in 0..((Len(dna.chars) \div 3) - 1) :
          SubSeq(dna.chars, 3 * k + 1, 3 * k + 3)
              \in {<<"T", "A", "A">>, <<"T", "A", "G">>, <<"T", "G", "A">>}

\* Every amino acid of the analysis is the stop marker, one per triplet.
AllStopAnalysis ==
    /\ analysis.codon_count = Len(dna.chars) \div 3
    /\ Len(analysis.amino_acids) = analysis.codon_count
    /\ \A k \in 1..Len(analysis.amino_acids) : analysis.amino_acids[k] = "*"

\* C13 as stated: for a sequence made only of three or more stop codons,
\* codon_count is the number of triplets, every amino acid is the stop
\* marker, and the melody track of the score holds no note.
C13_NoMelodyAsStated ==
    (pc = "done" /\ AllStopInput) => (AllStopAnalysis /\ tracks[1] = <<>>)

\* C13 amended: for a sequence made only of three or more stop codons,
\* codon_count is the number of triplets, every amino acid is the stop
\* marker, the main section is given no codon and adds no melody note, and
\* the melody track holds exactly the 6 notes of the outro, none of them
\* starting before the end of the main section.
C13_OutroMelodyOnly ==
    (pc = "done" /\ AllStopInput) =>
        /\ AllStopAnalysis
        /\ main_codons = <<>>
        /\ counters.melody_codon_idx = 0
        /\ info.has_outro
        /\ Len(tracks) = 4
        /\ Len(tracks[1]) = 6
        /\ \A i \in 1..Len(tracks[1]) :
              tracks[1][i].time >= (time_offset + main_section_beats) * Unit

\* The score of TGATAATGA is finished, with the outro's notes on the melody
\* track.
C13_Witness ==
    /\ pc = "done"
    /\ AllStopInput
    /\ dna.chars = <<"T", "G", "A", "T", "A", "A", "T", "G", "A">>
    /\ Len(tracks[1]) = 6
    /\ info.stop_codon = <<"T", "G", "A">>

\* The bands of a table start at 0 and each starts where the one before ends.
Contiguous(table) ==
    /\ table[1].low = 0
    /\ \A k \in 1..(Len(table) - 1) : table[k].high = table[k + 1].low

\* C14: the key bands and the mode bands are contiguous and exhaustive over
\* [0, infinity): every non-negative ratio is in exactly one band of its
\* table, and the fallback return after the band loop is never reached.
C14_BandsExhaustive ==
    /\ Contiguous(ROOT_KEYS)
    /\ Contiguous(MODES)
    /\ pc \in {"key", "mode"} => (Cardinality(band.matches) = 1 /\ ~band.fallback)

\* The aligned triplets (numbered from 0) of a sequence that consist of three
\* valid bases.
ValidTriplets(sequence) ==
    {k \in 0..((Len(sequence) \div 3) - 1) :
        \A j \in 1..3 : sequence[3 * k + j] \in {"A", "T", "G", "C"}}

\* C15: the codon list is, in order, exactly the aligned triplets
\* sequence[3k..3k+2] of three valid bases (of the upper-cased sequence); a
\* trailing group of fewer than 3 symbols is discarded; for a sequence of
\* valid bases only, codon_count = floor(length / 3).
C15_AlignedTriplets ==
    (pc = "analyzed" /\ ~dna.none) =>
        LET sequence == Upper(dna.chars)
            valid == ValidTriplets(sequence)
            codons == analysis.codons
        IN  /\ analysis.codon_count = Len(codons)
            /\ Len(codons) = Cardinality(valid)
            /\ \A i \in 1..Len(codons) :
                  LET k == CHOOSE k \in valid : Cardinality({m \in valid : m < k}) = i - 1
                  IN  codons[i] = SubSeq(sequence, 3 * k + 1, 3 * k + 3)
            /\ (\A i \in 1..Len(sequence) : sequence[i] \in {"A", "T", "G", "C"})
                  => analysis.codon_count = Len(sequence) \div 3

\* The sequence " cATGA" has been analysed: its first triplet holds a blank
\* and is left out, its second is the codon TGA.
C15_Witness ==
    /\ pc = "analyzed"
    /\ dna.chars = <<" ", "c", "A", "T", "G", "A">>
    /\ analysis.codons = << <<"T", "G", "A">> >>

\* The number of characters of the input that are valid bases once upper-cased.
ValidBaseCount(chars) == Cardinality({i \in 1..Len(chars) : UpperChar(chars[i]) \in Bases})

\* C16: for every string with fewer than 3 characters of {A,T,G,C}, whatever
\* its length, analyze returns the fixed default Analysis and generate_midi
\* produces the fallback score without raising.
C16_DefaultForUnusable ==
    (pc \in {"analyzed", "done", "raised"} /\ ~dna.none /\ ValidBaseCount(dna.chars) < 3) =>
        /\ analysis = default_analysis
        /\ raised = ""
        /\ pc = "done" => (Len(tracks) = 1 /\ ~info.set)

\* A string without its leading blanks.
RECURSIVE StripLeft(_)
StripLeft(s) == IF s # <<>> /\ Head(s) = " " THEN StripLeft(Tail(s)) ELSE s

\* A string without its trailing blanks.
RECURSIVE StripRight(_)
StripRight(s) ==
    IF s # <<>> /\ s[Len(s)] = " " THEN StripRight(SubSeq(s, 1, Len(s) - 1)) ELSE s

\* A string without the whitespace before and after it.
Strip(s) == StripRight(StripLeft(s))

\* C17: analyze strips whitespace: the Analysis of a sequence with whitespace
\* before or after it is (in key, mode, tempo, codons, motifs and length)
\* the Analysis of the sequence without that whitespace.
C17_StripsWhitespace ==
    (pc = "analyzed" /\ ~dna.none) =>
        LET stripped == analyze(Str(Strip(dna.chars)))
        IN  /\ analysis.key = stripped.key
            /\ analysis.mode = stripped.mode
            /\ analysis.tempo = stripped.tempo
            /\ analysis.codons = stripped.codons
            /\ analysis.motifs = stripped.motifs
            /\ analysis.length = stripped.length

\* C18: the melody generator wraps around the codon list: given codons, it
\* keeps emitting notes, restarting from the first codon, until the main
\* section's end time is reached.
C18_MelodyWraps ==
    (pc = "harmony" /\ main_codons # <<>>) =>
        counters.melody_time_pos >= (time_offset + main_section_beats) * Unit

\* The end of the piece, in ticks: the end of the main section, plus the
\* 8-beat outro when there is one.
PieceEnd == (time_offset + main_section_beats + (IF info.has_outro THEN 8 ELSE 0)) * Unit

\* C19: no pad-track note ends after the end of the piece.
C19_PadWithinPiece ==
    (pc = "done" /\ analysis.codon_count >= 3) =>
        \A i \in 1..Len(tracks[4]) :
            tracks[4][i].time + tracks[4][i].duration <= PieceEnd

\* Track k (counted from 0) holds a note of the given pitch starting at the
\* given time.
HasNoteAt(k, time, pitch) ==
    \E i \in 1..Len(tracks[k + 1]) :
        tracks[k + 1][i].time = time /\ tracks[k + 1][i].pitch = pitch

\* The pitch of scale degree root_degree above a base pitch, in the key.
DegreePitch(base, root_degree) ==
    base + analysis.root_note + analysis.scale[(root_degree % Len(analysis.scale)) + 1]

\* C20: in every 4-beat slot of the main section the harmony chord and the
\* bass pattern starting in the slot are built from the same codon (same root
\* degree); every pad chord is built from the same codon as the harmony
\* chord starting at the same time; a slot is a rest on one of the tracks
\* only if it is a rest on the others.
C20_TracksAgree ==
    (pc = "done" /\ analysis.codon_count >= 3) =>
        LET harmony == counters.harmony_plan
            bass == counters.bass_plan
            pad == counters.pad_plan
        IN  /\ Len(harmony) = Len(bass)
            /\ \A k \in 1..Len(harmony) :
                  LET root_degree == FIRST_BASE_DEGREE(harmony[k].codon[1])
                  IN  /\ harmony[k].time = (time_offset + 4 * (k - 1)) * Unit
                      /\ bass[k].time = harmony[k].time
                      /\ bass[k].codon = harmony[k].codon
                      /\ bass[k].rest = harmony[k].rest
                      /\ ~harmony[k].rest =>
                            /\ HasNoteAt(1, harmony[k].time,
                                         Clamp(36, 72, DegreePitch(48, root_degree)))
                            /\ HasNoteAt(2, harmony[k].time,
                                         Clamp(28, 48, DegreePitch(36, root_degree)))
            /\ \A j \in 1..Len(pad) :
                  /\ 2 * j - 1 <= Len(harmony)
                  /\ pad[j].time = harmony[2 * j - 1].time
                  /\ pad[j].codon = harmony[2 * j - 1].codon
                  /\ pad[j].rest = harmony[2 * j - 1].rest
                  /\ ~pad[j].rest =>
                        HasNoteAt(3, pad[j].time,
                                  Clamp(48, 72, DegreePitch(54, FIRST_BASE_DEGREE(pad[j].codon[1]))))

\* A score is finished whose main section has three or more chord slots and
\* two pad chords built from different codons.
C20_Witness ==
    /\ pc = "done"
    /\ Len(counters.harmony_plan) >= 3
    /\ Len(counters.bass_plan) >= 3
    /\ Len(counters.pad_plan) >= 2
    /\ counters.pad_plan[1].codon # counters.pad_plan[2].codon
    /\ counters.harmony_plan[1].codon # counters.harmony_plan[2].codon

\* Two notes of one track sound at the same moment on the same pitch.
SamePitchOverlap(a, b) ==
    /\ a.pitch = b.pitch
    /\ a.time < b.time + b.duration
    /\ b.time < a.time + a.duration

\* C21: on every track of the score, two different notes of the same pitch
\* never overlap in time, across intro, main section and outro.
C21_NoSamePitchOverlap ==
    Len(tracks) = 4 =>
        \A k \in 1..4 : \A i, j \in 1..Len(tracks[k]) :
            i < j => ~SamePitchOverlap(tracks[k][i], tracks[k][j])

\* C22: every note of the harmony track has a pitch class relative to the key
\* root that belongs to the active scale.
C22_HarmonyInKey ==
    Len(tracks) = 4 =>
        \A i \in 1..Len(tracks[2]) : InKey(tracks[2][i].pitch)

\* The scale of the snap specification's mode, and membership of a pitch in it.
SnapScale == MODES[snap.mode].scale
InSnapScale(q) == \E k \in 1..Len(SnapScale) : (q - snap.root) % 12 = SnapScale[k]

\* C23: _snap_to_scale returns a pitch of the scale that is as near to the
\* input as any scale tone is; a pitch of the scale is returned unchanged,
\* and snapping the result again changes nothing.
C23_SnapNearest ==
    /\ pc \in {"snapped", "resnapped"} =>
        /\ InSnapScale(snap.once)
        /\ \A q \in (snap.pitch - 12)..(snap.pitch + 12) :
               InSnapScale(q) => Abs(snap.once - snap.pitch) <= Abs(q - snap.pitch)
        /\ InSnapScale(snap.pitch) => snap.once = snap.pitch
    /\ pc = "resnapped" => snap.twice = snap.once

\* A pitch below the root, outside the scale, snapped twice.
C23_Witness ==
    /\ pc = "resnapped"
    /\ snap.pitch < snap.root
    /\ ~InSnapScale(snap.pitch)
    /\ snap.once # snap.pitch

\* q lies exactly between two scale tones, one semitone from each.
IsTie(q) == ~InSnapScale(q) /\ InSnapScale(q - 1) /\ InSnapScale(q + 1)

\* C24: ties are resolved to one side: two pitches of the same root and mode
\* that are each equidistant from two scale tones both snap down or both
\* snap up.
C24_TiesOneSide ==
    (pc = "snapped" /\ IsTie(snap.pitch)) =>
        \A q \in (snap.pitch - 12)..(snap.pitch + 12) :
            IsTie(q) =>
                ((snap_to_scale(q, snap.root, SnapScale) < q) <=> (snap.once < snap.pitch))

\* The first codon is ATG; the 1-based positions of the stop codons; the stop
\* codon that comes last in codon order.
FirstIsATG == analysis.codons # <<>> /\ analysis.codons[1] = ATG
StopIndices == {i \in 1..Len(analysis.codons) : analysis.codons[i] \in STOP_CODONS}
LastStopCodon == analysis.codons[CHOOSE i \in StopIndices : \A j \in StopIndices : j <= i]
IntroLength == IF FirstIsATG THEN 8 ELSE 0

\* C25: for codon_count >= 3, the intro step adds the intro, 8 beats long,
\* exactly when the first codon is ATG; the outro step adds the outro exactly
\* when some codon is a stop codon, shaped by the last stop codon and starting
\* at intro length + main_section_beats; the returned has_intro, has_outro and
\* stop_codon report exactly that.
C25_IntroOutro ==
    [][ /\ pc = "intro" =>
            IF FirstIsATG
            THEN /\ tracks' = AddSection(tracks, generate_intro(analysis.root_note, analysis.scale))
                 /\ \A k \in 1..4 : \A i \in 1..Len(tracks'[k]) : tracks'[k][i].time < 8 * Unit
                 /\ time_offset' = 8
            ELSE /\ tracks' = tracks
                 /\ time_offset' = 0
        /\ pc = "outro" =>
            /\ time_offset = IntroLength
            /\ IF StopIndices # {}
               THEN /\ tracks' = AddSection(tracks,
                           generate_outro(analysis.root_note, analysis.scale,
                               (IntroLength + main_section_beats) * Unit, LastStopCodon))
                    /\ \A k \in 1..4 : \A i \in (Len(tracks[k]) + 1)..Len(tracks'[k]) :
                           /\ tracks'[k][i].time >= (IntroLength + main_section_beats) * Unit
                           /\ tracks'[k][i].time < (IntroLength + main_section_beats + 8) * Unit
               ELSE tracks' = tracks
        /\ (pc = "write" /\ analysis.codon_count >= 3) =>
            /\ info'.set
            /\ info'.has_intro = FirstIsATG
            /\ info'.has_outro = (StopIndices # {})
            /\ info'.stop_codon = (IF StopIndices # {} THEN LastStopCodon ELSE NoCodon)
      ]_vars

\* A finished score of ATG ... TAA ... TGA: intro played, outro shaped by TGA.
C25_Witness ==
    /\ pc = "done"
    /\ info.has_intro
    /\ info.has_outro
    /\ info.stop_codon = <<"T", "G", "A">>
    /\ \E i \in StopIndices : analysis.codons[i] = <<"T", "A", "A">>
    /\ \E k \in 1..4 : \E i \in 1..Len(tracks[k]) :
           tracks[k][i].time = (time_offset + main_section_beats) * Unit

\* The accepted requests of one address whose timestamps lie in the 60
\* seconds that end at time w.
AcceptedInWindow(ip, w) ==
    {i \in 1..Len(accepted) :
        /\ accepted[i].ip = ip
        /\ accepted[i].now > w - 60 * TicksPerSecond
        /\ accepted[i].now <= w}

\* C26: the rate limiter accepts at most RATE_LIMIT requests of one client
\* address in any 60-second window, however the threads interleave.
C26_AtMostRateLimit ==
    \A i \in 1..Len(accepted) :
        Cardinality(AcceptedInWindow(accepted[i].ip, accepted[i].now)) <= RATE_LIMIT

\* C27: no two generate requests are given the same MIDI or MP3 path.
C27_DistinctPaths ==
    \A i, j \in 1..Len(files) :
        i < j => /\ files[i].midi_path # files[j].midi_path
                 /\ files[i].mp3_path # files[j].mp3_path

\* The passes of a generator's loop, none through its rest branch and none
\* on a stop codon.
NoStopInPlan(plan) ==
    \A i \in 1..Len(plan) : ~plan[i].rest /\ plan[i].codon \notin STOP_CODONS

\* C28: once the outro is reserved the main section's codon list holds no
\* stop codon, and the melody, harmony, bass and pad generators never take
\* their rest branch, so no stop codon advances time in the main section.
C28_NoStopInMainSection ==
    pc \in {"melody", "harmony", "bass", "pad", "outro", "write", "done"} =>
        /\ \A i \in 1..Len(main_codons) : main_codons[i] \notin STOP_CODONS
        /\ counters.melody_rests = 0
        /\ counters.harmony_rests = 0
        /\ counters.bass_rests = 0
        /\ counters.pad_rests = 0
        /\ NoStopInPlan(counters.harmony_plan)
        /\ NoStopInPlan(counters.bass_plan)
        /\ NoStopInPlan(counters.pad_plan)

\* A finished score of a sequence with a stop codon between two other codons.
C28_Witness ==
    /\ pc = "done"
    /\ \E i \in 2..(Len(analysis.codons) - 1) : analysis.codons[i] \in STOP_CODONS
    /\ Len(main_codons) >= 2
    /\ Len(main_codons) < Len(analysis.codons)
    /\ counters.melody_codon_idx >= 2
    /\ Len(counters.harmony_plan) >= 2

\* C29: the melody never reads contour_hash unassigned: no call ends in an
\* UnboundLocalError, and a main section of fewer than 3 codons, for which
\* contour_hash is left unset, never executes the phrase-boundary contour
\* shift.
C29_ContourHashAssigned ==
    /\ raised # "UnboundLocalError"
    /\ (pc \in {"harmony", "bass", "pad", "outro", "write", "done"}
          /\ ~HasContourHash(main_codons)) => counters.contour_shifts = 0

\* The main section had one or two codons and the melody played them all.
C29_Witness ==
    /\ pc = "done"
    /\ analysis.codon_count >= 3
    /\ main_codons # <<>>
    /\ ~HasContourHash(main_codons)
    /\ counters.melody_codon_idx = Len(main_codons)
    /\ Len(tracks[1]) >= Len(main_codons)

\* The positions on the melody track of the main section's notes, while the
\* outro has not been added.
MainMelodyNotes == {i \in 1..Len(tracks[1]) : tracks[1][i].time >= time_offset * Unit}

\* C30: in the melody's main loop every note starts at or after the end of
\* the note emitted before it, and the shift by a fifth of a repeated pitch
\* is never taken.
C30_NoFifthShift ==
    /\ counters.fifth_shifts = 0
    /\ pc = "harmony" =>
          \A i \in MainMelodyNotes :
              (i + 1) \in MainMelodyNotes =>
                  tracks[1][i + 1].time >= tracks[1][i].time + tracks[1][i].duration

\* The main loop has emitted two notes of the same pitch one after the other.
C30_Witness ==
    /\ pc = "harmony"
    /\ \E i \in MainMelodyNotes :
          /\ (i + 1) \in MainMelodyNotes
          /\ tracks[1][i + 1].pitch = tracks[1][i].pitch

====
